---- MODULE Spec2Model ----
(***************************************************************************)
(* Cashback ledger and sale lifecycle of src/sale_service.js (SaleService). *)
(*                                                                         *)
(* The state is the two collections the service writes (sales and          *)
(* receivedsales) and, for every handler in flight, the position it has    *)
(* reached and the locals it holds.  Every `await` on the record store is  *)
(* a step of its own, so handlers interleave exactly where Node may        *)
(* switch between them.  Calls to collaborators (user directory, Dito,     *)
(* e-mail) touch no shared state; they are folded into the step that       *)
(* follows them and may fail there.                                        *)
(***************************************************************************)
EXTENDS Integers, Sequences, FiniteSets, TLC

(* ------------------------------- bounds -------------------------------- *)
\* submissions received while the model runs
MaxReceived == 1
\* handlers started while the model runs
MaxOps == 2

\* the earned records of the ledger the model starts from
EarnedIds == 1..2
\* expiration dates of the earned records
Dates == {1, 2}
\* amounts a redemption may ask for: up to the whole of that ledger
Amounts == 1..3

Procs == {1, 2}
Cpfs == {"c1", "c2"}
\* c1, c2: identifiers made of digits only
\* processSale.cpf when processSale is the literal { data: createData }
NoCpf == "undefined"
\* a field that is absent from the document ($unset, or never written)
Unset == -1

Statuses == {"PENDING", "AVAILABLE", "USED", "CANCELED", "EXPIRED"}

VARIABLES
    sales,      \* the sales collection: sequence of documents, _id = index
    received,   \* the receivedsales collection, _id = index
    procs,      \* one slot per handler in flight: position and locals
    nops,       \* handlers started so far
    obs,        \* whether the history variables below are recorded
    trail,      \* the last redemption that returned, and the ledger before it
                \* (procs[p].pre: the ledger when p's current call started)
    ev          \* one campaign evaluation (_calculeCashback and what follows
                \* it in _generateCashback), step by step

vars == <<sales, received, procs, nops, obs, trail, ev>>

(* ------------------------------ helpers -------------------------------- *)
RECURSIVE SumSeq(_)
SumSeq(s) == IF s = <<>> THEN 0 ELSE Head(s) + SumSeq(Tail(s))

RECURSIVE SumOver(_, _)
SumOver(S, f) ==
    IF S = {} THEN 0
    ELSE LET x == CHOOSE y \in S : TRUE IN f[x] + SumOver(S \ {x}, f)

UsedValues(h) == [i \in 1..Len(h) |-> h[i].usedValue]

Ids(coll) == 1..Len(coll)

\* $sum treats a missing field as 0
Num(v) == IF v = Unset THEN 0 ELSE v

(* ----------------------------- documents ------------------------------- *)
\* A submission (createData): what create, createAllSales and the batch
\* hand to _generateCashback.  cashback/expirateDate stand for the outcome
\* of the campaign evaluation of an earning sale (0: no campaign matched).
\* invoice keys: the initial earned records carry their index
RedeemKeys == {101}
EarnKeys == {1, 102}

\* usedCampaign/limit: the code and the cpfParticipationLimit (0: not set)
\* of the campaign the evaluation comes down to.
RedeemData ==
    [usedCashback : {TRUE}, usedCashbackValue : Amounts,
     cpf : {"c1"}, invoiceKey : RedeemKeys, cashback : {0}, expirateDate : {0},
     usedCampaign : {"none"}, limit : {0}]

EarnData ==
    [usedCashback : {FALSE}, usedCashbackValue : {0},
     cpf : {"c2"}, invoiceKey : EarnKeys, cashback : {1}, expirateDate : {1},
     usedCampaign : {"k1"}, limit : {0}]

Submissions == RedeemData \cup EarnData

\* An earned record as the earning path persists it (status PENDING, no
\* availableCashback yet).
EarnedSale(cpf, key, total, exp, rs, usedCampaign) ==
    [cpf |-> cpf, invoiceKey |-> key, status |-> "PENDING",
     usedCampaign |-> usedCampaign,
     usedCashback |-> FALSE, usedCashbackValue |-> 0,
     totalCashback |-> total, availableCashback |-> Unset,
     creditDate |-> 0, expirateDate |-> exp,
     cashbackUseHistory |-> <<>>, history |-> <<>>, receivedSale |-> rs]

createUsedCashbackSale(data, rs) ==
    [cpf |-> data.cpf, invoiceKey |-> data.invoiceKey, status |-> "USED",
     usedCampaign |-> "none",
     usedCashback |-> data.usedCashback,
     usedCashbackValue |-> data.usedCashbackValue,
     totalCashback |-> 0, availableCashback |-> Unset,
     creditDate |-> Unset, expirateDate |-> Unset,
     cashbackUseHistory |-> <<>>, history |-> <<>>, receivedSale |-> rs]

\* a history that keeps its latest entry only
createOrReplaceCashbackUseHistory(usedValue, invoiceKey, cashbackUseHistory, saleId) ==
    <<[usedValue |-> usedValue, invoiceKey |-> invoiceKey, saleId |-> saleId]>>

\* _createOrAddCashbackUseHistory: the entry is pushed to the history
createOrAddCashbackUseHistory(usedValue, invoiceKey, cashbackUseHistory, saleId) ==
    Append(cashbackUseHistory,
           [usedValue |-> usedValue, invoiceKey |-> invoiceKey, saleId |-> saleId])

createCashbackFontHistory(usedValue, invoiceKey, saleId) ==
    [usedValue |-> usedValue, from |-> invoiceKey, saleId |-> saleId]

(* ------------------------------ queries -------------------------------- *)
\* variant of getBalance whose $match leaves the status out
getBalanceAnyStatus(coll, cpf) ==
    LET S == {i \in Ids(coll) : coll[i].cpf = cpf}
    IN SumOver(S, [i \in S |-> Num(coll[i].availableCashback)])

\* variant of getBalance whose $match leaves the customer out
getBalanceAnyCustomer(coll, cpf) ==
    LET S == {i \in Ids(coll) : coll[i].status = "AVAILABLE"}
    IN SumOver(S, [i \in S |-> Num(coll[i].availableCashback)])

\* _getBalance: $match {cpf, status: AVAILABLE}, $sum availableCashback
getBalance(coll, cpf) ==
    LET S == {i \in Ids(coll) : coll[i].cpf = cpf /\ coll[i].status = "AVAILABLE"}
    IN SumOver(S, [i \in S |-> Num(coll[i].availableCashback)])

\* the filter of _useCashback's find
WithCashback(coll, cpf) ==
    {i \in Ids(coll) : /\ coll[i].cpf = cpf
                       /\ coll[i].status = "AVAILABLE"
                       /\ coll[i].availableCashback > 0}

\* which of a set of documents a sort on expirateDate puts first
SortHead(coll, S) ==
    {i \in S : \A j \in S : coll[i].expirateDate >= coll[j].expirateDate}

\* every order the sort may return (documents with equal keys in any order)
RECURSIVE Orders(_, _)
Orders(coll, S) ==
    IF S = {} THEN {<<>>}
    ELSE UNION {{<<i>> \o rest : rest \in Orders(coll, S \ {i})} : i \in SortHead(coll, S)}

\* the documents as find returns them: copies, with their _id
Fetched(coll, order) ==
    [k \in 1..Len(order) |->
        [id |-> order[k],
         invoiceKey |-> coll[order[k]].invoiceKey,
         availableCashback |-> coll[order[k]].availableCashback,
         cashbackUseHistory |-> coll[order[k]].cashbackUseHistory]]

\* variant of AllocLoop that takes what is still owed from every record it
\* visits, whatever the record holds
RECURSIVE AllocLoopOverdraw(_, _, _, _, _, _, _)
AllocLoopOverdraw(found, i, usedValueAux, history, usedSales, invoiceKey, saleId) ==
    IF usedValueAux = 0
    THEN [ok |-> TRUE, history |-> history, usedSales |-> usedSales]
    ELSE IF i > Len(found)
    THEN [ok |-> FALSE, history |-> history, usedSales |-> usedSales]
    ELSE LET sale == found[i]
             left == IF sale.availableCashback >= usedValueAux
                     THEN 0 ELSE usedValueAux - sale.availableCashback
             upd == [sale EXCEPT
                       !.cashbackUseHistory =
                           createOrAddCashbackUseHistory(usedValueAux, invoiceKey, @, saleId),
                       !.availableCashback = @ - usedValueAux]
         IN AllocLoopOverdraw(found, i + 1, left,
                      Append(history,
                             createCashbackFontHistory(usedValueAux, sale.invoiceKey, sale.id)),
                      Append(usedSales, upd), invoiceKey, saleId)

\* the while loop of _useCashback over the fetched copies
RECURSIVE AllocLoop(_, _, _, _, _, _, _)
AllocLoop(found, i, usedValueAux, history, usedSales, invoiceKey, saleId) ==
    IF usedValueAux = 0
    THEN [ok |-> TRUE, history |-> history, usedSales |-> usedSales]
    ELSE IF i > Len(found)
    THEN \* salesWithCashback[i] is undefined: reading its field throws
         [ok |-> FALSE, history |-> history, usedSales |-> usedSales]
    ELSE LET sale == found[i]
             take == IF sale.availableCashback >= usedValueAux
                     THEN usedValueAux ELSE sale.availableCashback
             upd == [sale EXCEPT
                       !.cashbackUseHistory =
                           createOrAddCashbackUseHistory(take, invoiceKey, @, saleId),
                       !.availableCashback = @ - take]
         IN AllocLoop(found, i + 1, usedValueAux - take,
                      Append(history,
                             createCashbackFontHistory(take, sale.invoiceKey, sale.id)),
                      Append(usedSales, upd), invoiceKey, saleId)

\* findOneAndUpdate acts on the first of the documents that match, if any
FirstOf(S) == IF S = {} THEN 0 ELSE CHOOSE i \in S : \A j \in S : i <= j

(* ------------------------- handlers in flight -------------------------- *)
IdleProc ==
    [op |-> "idle", pc |-> "idle", rs |-> 0, todo |-> <<>>, saleId |-> 0,
     usedSales |-> <<>>, pend |-> {}, failed |-> FALSE, history |-> <<>>,
     outcome |-> "none",
     pre |-> <<>>, results |-> <<>>]

NoTrail == [sale |-> 0, snap |-> <<>>]

\* no evaluation is followed
NoEval == [pc |-> "none"]

Unprocessed(coll) == {i \in Ids(coll) : ~coll[i].processed}

RECURSIVE Ascending(_)
Ascending(S) ==
    IF S = {} THEN <<>>
    ELSE LET m == CHOOSE x \in S : \A y \in S : x <= y
         IN <<m>> \o Ascending(S \ {m})

\* the batch moves to its next received sale, or returns { success: true }
BatchAdvance(pr) ==
    LET rest == Tail(pr.todo)
    IN IF rest = <<>>
       THEN [pr EXCEPT !.todo = rest, !.pc = "end", !.outcome = "success"]
       ELSE [pr EXCEPT !.todo = rest, !.pc = "gen_balance", !.rs = Head(rest)]

\* _generateCashback throws: create rethrows to its caller; the batch
\* records the error beside the received sale and goes on, unless it is a
\* ValidationError: _handleMongoError throws from inside the catch, the
\* loop is left and the outer catch returns { success: false, error }
GenThrow(pr, err) ==
    IF pr.op = "create"
    THEN [pr EXCEPT !.pc = "end", !.outcome = err]
    ELSE IF err = "ValidationError"
    THEN [pr EXCEPT !.pc = "end", !.outcome = "failure"]
    ELSE BatchAdvance([pr EXCEPT !.results = Append(@, [rs |-> pr.rs, error |-> err])])

(* ------------------------- create, the batch --------------------------- *)
\* a new handler takes the first free slot (the slots are interchangeable)
CanStart(p) ==
    /\ procs[p].pc = "idle"
    /\ \A q \in Procs : q < p => procs[q].pc # "idle"
    /\ nops < MaxOps

\* submissions received after the prior one
CanReceive == Len(received) < 1 + MaxReceived

NewReceived(data) ==
    [invoiceKey |-> data.invoiceKey, cpf |-> data.cpf, data |-> data, processed |-> FALSE]

create(p) ==
    /\ CanStart(p)
    /\ CanReceive
    /\ \E data \in Submissions :
          /\ received' = Append(received, NewReceived(data))
          /\ procs' = [procs EXCEPT ![p] =
                 [IdleProc EXCEPT !.op = "create", !.pc = "gen_balance",
                                  !.rs = Len(received) + 1]]
    /\ nops' = nops + 1
    /\ UNCHANGED <<ev, sales, obs, trail>>

createAllSales ==
    /\ CanReceive
    /\ \E data \in Submissions : received' = Append(received, NewReceived(data))
    /\ UNCHANGED <<ev, sales, procs, nops, obs, trail>>

processUnprocessedSales(p) ==
    /\ CanStart(p)
    /\ LET todo == Ascending(Unprocessed(received))
       IN procs' = [procs EXCEPT ![p] =
              IF todo = <<>>
              THEN [IdleProc EXCEPT !.op = "batch", !.pc = "end", !.outcome = "success"]
              ELSE [IdleProc EXCEPT !.op = "batch", !.pc = "gen_balance",
                                    !.todo = todo, !.rs = Head(todo)]]
    /\ nops' = nops + 1
    /\ UNCHANGED <<ev, sales, received, obs, trail>>

InsufficientFunds(balance, usedCashbackValue) == balance < usedCashbackValue

\* the cpf _generateCashback reads the balance of: processSale.cpf
CheckedCpf(pr) == IF pr.op = "create" THEN NoCpf ELSE received[pr.rs].cpf

generateCashback(p) ==
    /\ procs[p].pc = "gen_balance"
    /\ LET pr == [procs[p] EXCEPT !.pre = IF obs THEN sales ELSE <<>>]
           data == received[pr.rs].data
           balance == getBalance(sales, CheckedCpf(pr))
       IN procs' = [procs EXCEPT ![p] =
              IF data.usedCashback
              THEN IF InsufficientFunds(balance, data.usedCashbackValue)
                   THEN GenThrow(pr, "INSUFFICIENT_FUNDS")
                   ELSE [pr EXCEPT !.pc = "red_create"]
              ELSE [pr EXCEPT !.pc = "earn_dup1"]]
    /\ trail' = NoTrail
    /\ UNCHANGED <<ev, sales, received, nops, obs>>

(* --------------------- _generateCashback: redemption ------------------- *)
GenReturn(pr) == [pr EXCEPT !.pc = "mark"]

\* _saleModel.create validates the document against the schema: it
\* rejects with a ValidationError and writes nothing, or inserts
redeemCreateSale(p) ==
    /\ procs[p].pc = "red_create"
    /\ LET pr == procs[p]
       IN \E invalid \in BOOLEAN :
             IF invalid
             THEN /\ procs' = [procs EXCEPT ![p] = GenThrow(pr, "ValidationError")]
                  /\ sales' = sales
             ELSE /\ sales' = Append(sales, createUsedCashbackSale(received[pr.rs].data, pr.rs))
                  /\ procs' = [procs EXCEPT ![p] =
                         [pr EXCEPT !.pc = "red_find", !.saleId = Len(sales) + 1]]
    /\ UNCHANGED <<ev, received, nops, obs, trail>>

\* _useCashback up to its Promise.all: the find and the (synchronous) loop
useCashbackFind(p) ==
    /\ procs[p].pc = "red_find"
    /\ LET pr == procs[p]
           data == received[pr.rs].data
       IN \E order \in Orders(sales, WithCashback(sales, data.cpf)) :
            LET r == AllocLoop(Fetched(sales, order), 1, data.usedCashbackValue,
                               <<>>, <<>>, data.invoiceKey, pr.saleId)
            IN procs' = [procs EXCEPT ![p] =
                   IF ~r.ok THEN GenThrow(pr, "TypeError")
                   ELSE [pr EXCEPT !.usedSales = r.usedSales,
                                   !.history = r.history,
                                   !.pend = 1..Len(r.usedSales),
                                   !.failed = FALSE,
                                   !.pc = IF r.usedSales = <<>>
                                          THEN "red_tail" ELSE "red_write"]]
    /\ UNCHANGED <<ev, sales, received, nops, obs, trail>>

\* variant of UpdateOne whose $set leaves cashbackUseHistory out
UpdateOneBalanceOnly(coll, u) ==
    [coll EXCEPT ![u.id] = [@ EXCEPT !.availableCashback = u.availableCashback]]

\* one updateOne of the Promise.all, applied: $set of the values computed
\* from the copy
UpdateOne(coll, u) ==
    [coll EXCEPT ![u.id] = [@ EXCEPT !.availableCashback = u.availableCashback,
                                     !.cashbackUseHistory = u.cashbackUseHistory]]

\* The updateOne calls are issued together and settle one by one, each on
\* its own: it is applied, or it rejects and leaves its document alone.
\* Promise.all rejects when one of them did, and _useCashback throws.
useCashbackUpdateOne(p) ==
    /\ procs[p].pc = "red_write"
    /\ LET pr == procs[p]
       IN \E k \in pr.pend, rejects \in BOOLEAN :
            LET after == [pr EXCEPT !.pend = @ \ {k}, !.failed = @ \/ rejects]
            IN /\ sales' = IF rejects THEN sales ELSE UpdateOne(sales, pr.usedSales[k])
               /\ procs' = [procs EXCEPT ![p] =
                      IF after.pend # {} THEN after
                      ELSE IF after.failed THEN GenThrow(after, "WRITE_ERROR")
                      ELSE [after EXCEPT !.pc = "red_tail"]]
    /\ UNCHANGED <<ev, received, nops, obs, trail>>

\* getUserByCpf, _findOrCreateDitoUser and createEvent are awaited: a
\* failure of one of them leaves _generateCashback before the history is saved
redeemNotify(p) ==
    /\ procs[p].pc = "red_tail"
    /\ \E fails \in BOOLEAN :
          procs' = [procs EXCEPT ![p] =
              IF fails THEN GenThrow(procs[p], "COLLABORATOR_ERROR")
              ELSE [procs[p] EXCEPT !.pc = "red_hist"]]
    /\ UNCHANGED <<ev, sales, received, nops, obs, trail>>

redeemSaveHistory(p) ==
    /\ procs[p].pc = "red_hist"
    /\ LET pr == procs[p]
       IN /\ sales' = [sales EXCEPT ![pr.saleId].history = pr.history]
          /\ procs' = [procs EXCEPT ![p] = GenReturn(pr)]
          /\ trail' = IF obs THEN [sale |-> pr.saleId, snap |-> pr.pre] ELSE NoTrail
    /\ UNCHANGED <<ev, received, nops, obs>>

(* ---------------------- _generateCashback: earning --------------------- *)
HasInvoiceKey(coll, key) == \E i \in Ids(coll) : coll[i].invoiceKey = key

earnCheckDuplicate(p) ==
    /\ procs[p].pc = "earn_dup1"
    /\ LET pr == procs[p]
       IN procs' = [procs EXCEPT ![p] =
              IF HasInvoiceKey(sales, received[pr.rs].data.invoiceKey)
              THEN GenThrow(pr, "CONFLICT_DUPLICATE_INVOICE_KEY_ERROR")
              ELSE [pr EXCEPT !.pc = "earn_calc"]]
    /\ UNCHANGED <<ev, sales, received, nops, obs, trail>>

\* cpf.replace(/\D/g, ''): the identifier without its punctuation
onlyDigits(cpf) == IF cpf = "111.222.333-44" THEN "11122233344" ELSE cpf

\* variant of checkCpfParticipationLimit that lets the customer in while
\* the count does not exceed the limit
checkCpfParticipationLimitOffByOne(coll, campaignCode, cpfParticipationLimit, cpf) ==
    ~(Cardinality({i \in Ids(coll) : /\ coll[i].cpf = onlyDigits(cpf)
                                      /\ coll[i].usedCampaign = campaignCode})
         > cpfParticipationLimit)

\* _checkCpfParticipationLimit: countDocuments({cpf, usedCampaign})
checkCpfParticipationLimit(coll, campaignCode, cpfParticipationLimit, cpf) ==
    ~(Cardinality({i \in Ids(coll) : /\ coll[i].cpf = onlyDigits(cpf)
                                      /\ coll[i].usedCampaign = campaignCode})
         >= cpfParticipationLimit)

\* ban list, campaign source, _calculeCashback: no campaign matched the
\* sale, or the one that did has its participation limit used up
earnCalculate(p) ==
    /\ procs[p].pc = "earn_calc"
    /\ LET pr == procs[p]
           data == received[pr.rs].data
       IN \E banned \in BOOLEAN :
            procs' = [procs EXCEPT ![p] =
                IF banned THEN GenThrow(pr, "USER_FOUND_BANNEDLIST")
                ELSE IF \/ data.cashback = 0
                        \/ /\ data.limit # 0
                           /\ ~checkCpfParticipationLimit(sales, data.usedCampaign,
                                                          data.limit, data.cpf)
                THEN GenThrow(pr, "SALE_NOT_MATCH_ANY_CAMPAIGN")
                ELSE [pr EXCEPT !.pc = "earn_dup2"]]
    /\ UNCHANGED <<ev, sales, received, nops, obs, trail>>

earnRecheckDuplicate(p) ==
    /\ procs[p].pc = "earn_dup2"
    /\ LET pr == procs[p]
       IN procs' = [procs EXCEPT ![p] =
              IF HasInvoiceKey(sales, received[pr.rs].data.invoiceKey)
              THEN GenThrow(pr, "CONFLICT_DUPLICATE_INVOICE_KEY_ERROR")
              ELSE [pr EXCEPT !.pc = "earn_upsert"]]
    /\ UNCHANGED <<ev, sales, received, nops, obs, trail>>

\* findOneAndUpdate({invoiceKey}, {...data}, {upsert: true})
Upsert(coll, data, rs) ==
    LET k == FirstOf({i \in Ids(coll) : coll[i].invoiceKey = data.invoiceKey})
    IN IF k = 0
       THEN Append(coll, EarnedSale(data.cpf, data.invoiceKey, data.cashback,
                                    data.expirateDate, rs, data.usedCampaign))
       ELSE [coll EXCEPT ![k] =
                [@ EXCEPT !.status = "PENDING", !.cpf = data.cpf,
                          !.usedCampaign = data.usedCampaign,
                          !.totalCashback = data.cashback, !.creditDate = 0,
                          !.expirateDate = data.expirateDate, !.receivedSale = rs]]

earnUpsert(p) ==
    /\ procs[p].pc = "earn_upsert"
    /\ LET pr == procs[p]
       IN /\ sales' = Upsert(sales, received[pr.rs].data, pr.rs)
          /\ procs' = [procs EXCEPT ![p] = [pr EXCEPT !.pc = "earn_tail"]]
    /\ UNCHANGED <<ev, received, nops, obs, trail>>

earnNotify(p) ==
    /\ procs[p].pc = "earn_tail"
    /\ \E fails \in BOOLEAN :
          procs' = [procs EXCEPT ![p] =
              IF fails THEN GenThrow(procs[p], "COLLABORATOR_ERROR")
              ELSE GenReturn(procs[p])]
    /\ UNCHANGED <<ev, sales, received, nops, obs, trail>>

(* --------------------- after _generateCashback returns ----------------- *)
\* create: findOneAndUpdate({invoiceKey, cpf, data, processed: false});
\* the batch: findOneAndUpdate({invoiceKey: processSale.invoiceKey})
MarkTarget(pr) ==
    LET me == received[pr.rs]
    IN IF pr.op = "create"
       THEN FirstOf({i \in Ids(received) : /\ received[i].invoiceKey = me.invoiceKey
                                             /\ received[i].cpf = me.cpf
                                             /\ received[i].data = me.data
                                             /\ ~received[i].processed})
       ELSE FirstOf({i \in Ids(received) : received[i].invoiceKey = me.invoiceKey})

markProcessed(p) ==
    /\ procs[p].pc = "mark"
    /\ LET pr == procs[p]
           k == MarkTarget(pr)
       IN /\ received' = IF k = 0 THEN received
                         ELSE [received EXCEPT ![k].processed = TRUE]
          /\ procs' = [procs EXCEPT ![p] =
                 IF pr.op = "create"
                 THEN \* `return newSale`: newSale is not defined in create
                      [pr EXCEPT !.pc = "end", !.outcome = "ReferenceError"]
                 ELSE BatchAdvance([pr EXCEPT !.results =
                                       Append(@, [rs |-> pr.rs, error |-> "none"])])]
    /\ UNCHANGED <<ev, sales, nops, obs, trail>>

(* ------------------------------ initial state -------------------------- *)
\* The earned records the service starts from: records of customer c1,
\* released (record i earned i), with every assignment of expiration dates.
ReleasedLedgers ==
    {[i \in EarnedIds |->
         [EarnedSale("c1", i, i, e[i], 0, "k0")
             EXCEPT !.status = "AVAILABLE", !.availableCashback = i]] :
       e \in [EarnedIds -> Dates]}

RECURSIVE UpdateAll(_, _)
UpdateAll(coll, usedSales) ==
    IF usedSales = <<>> THEN coll
    ELSE UpdateAll(UpdateOne(coll, Head(usedSales)), Tail(usedSales))

\* the ledgers one redemption of `data`, run alone and to its end, leaves
Redeemed(coll, data, rs) ==
    {LET id == Len(coll) + 1
         r == AllocLoop(Fetched(coll, order), 1, data.usedCashbackValue,
                        <<>>, <<>>, data.invoiceKey, id)
         written == UpdateAll(Append(coll, createUsedCashbackSale(data, rs)), r.usedSales)
     IN [written EXCEPT ![id].history = r.history] :
       order \in {o \in Orders(coll, WithCashback(coll, data.cpf)) :
                     getBalance(coll, data.cpf) >= data.usedCashbackValue}}

\* the submission received before the model starts: a redemption of c1
PriorSubmission(n) ==
    [usedCashback |-> TRUE, usedCashbackValue |-> n, cpf |-> "c1",
     invoiceKey |-> 100, cashback |-> 0, expirateDate |-> 0,
     usedCampaign |-> "none", limit |-> 0]

\* It was processed, alone, by the batch.
Start ==
    /\ \E L \in ReleasedLedgers, n \in Amounts :
          /\ received = <<[invoiceKey |-> 100, cpf |-> "c1",
                           data |-> PriorSubmission(n), processed |-> TRUE]>>
          /\ sales \in Redeemed(L, PriorSubmission(n), 1)
    /\ procs = [p \in Procs |-> IdleProc]
    /\ nops = 0
    /\ trail = NoTrail
    /\ ev = NoEval

(* -------------------------------- cancel ------------------------------- *)
\* variant of CancelGuard without the guard on EXPIRED
CancelGuardNoExpired(coll, id) ==
    IF id \notin Ids(coll) THEN "SALE_NOT_FOUND"
    ELSE IF coll[id].status = "CANCELED" THEN "ok"
    ELSE IF coll[id].status = "AVAILABLE" THEN "CANT_CANCEL_AVAILABLE_SALE"
    ELSE "go"

\* variant of CancelGuard without the early return on CANCELED
CancelGuardNoCanceled(coll, id) ==
    IF id \notin Ids(coll) THEN "SALE_NOT_FOUND"
    ELSE IF coll[id].status = "AVAILABLE" THEN "CANT_CANCEL_AVAILABLE_SALE"
    ELSE IF coll[id].status = "EXPIRED" THEN "CANT_CANCEL_EXPIRED_SALE"
    ELSE "go"

\* findOne and the guards on the sale's status
CancelGuard(coll, id) ==
    IF id \notin Ids(coll) THEN "SALE_NOT_FOUND"
    ELSE IF coll[id].status = "CANCELED" THEN "ok"
    ELSE IF coll[id].status = "AVAILABLE" THEN "CANT_CANCEL_AVAILABLE_SALE"
    ELSE IF coll[id].status = "EXPIRED" THEN "CANT_CANCEL_EXPIRED_SALE"
    ELSE "go"

cancel(p) ==
    /\ CanStart(p)
    /\ \E id \in 1..(Len(sales) + 1) :
          LET pr == [IdleProc EXCEPT !.op = "cancel", !.saleId = id,
                                   !.pre = IF obs THEN sales ELSE <<>>]
              g == CancelGuard(sales, id)
          IN /\ procs' = [procs EXCEPT ![p] =
                    IF g # "go" THEN [pr EXCEPT !.pc = "end", !.outcome = g]
                    ELSE IF sales[id].usedCashback
                    THEN [pr EXCEPT !.history = sales[id].history,
                                    !.pend = 1..Len(sales[id].history),
                                    !.pc = IF sales[id].history = <<>>
                                           THEN "can_mark" ELSE "can_restore"]
                    ELSE [pr EXCEPT !.pc = "can_void"]]
             /\ trail' = IF id = trail.sale THEN trail ELSE NoTrail
    /\ nops' = nops + 1
    /\ UNCHANGED <<ev, sales, received, obs>>

\* variant of Restore without the $filter of cashbackUseHistory
RestoreKeepHistory(coll, h, id) ==
    IF coll[h.saleId].status = "EXPIRED" THEN coll
    ELSE [coll EXCEPT ![h.saleId] =
             [@ EXCEPT !.availableCashback = Num(@) + h.usedValue]]

\* variant of Restore whose $match leaves the status out
RestoreAnyStatus(coll, h, id) ==
    [coll EXCEPT ![h.saleId] =
        [@ EXCEPT !.availableCashback = Num(@) + h.usedValue,
                  !.cashbackUseHistory = SelectSeq(@, LAMBDA e : e.saleId # id)]]

\* one aggregate of the Promise.all: $match {_id: h.saleId, status != EXPIRED},
\* $set, $merge back into sales (taken as one atomic update of the document)
Restore(coll, h, id) ==
    IF coll[h.saleId].status = "EXPIRED" THEN coll
    ELSE [coll EXCEPT ![h.saleId] =
             [@ EXCEPT !.availableCashback = Num(@) + h.usedValue,
                       !.cashbackUseHistory = SelectSeq(@, LAMBDA e : e.saleId # id)]]

cancelRestore(p) ==
    /\ procs[p].pc = "can_restore"
    /\ LET pr == procs[p]
       IN \E k \in pr.pend :
            /\ sales' = Restore(sales, pr.history[k], pr.saleId)
            /\ procs' = [procs EXCEPT ![p] =
                   [pr EXCEPT !.pend = @ \ {k},
                              !.pc = IF pr.pend = {k} THEN "can_mark" ELSE "can_restore"]]
    /\ UNCHANGED <<ev, received, nops, obs, trail>>

cancelMarkCanceled(p) ==
    /\ procs[p].pc = "can_mark"
    /\ sales' = [sales EXCEPT ![procs[p].saleId].status = "CANCELED"]
    /\ procs' = [procs EXCEPT ![p].pc = "can_tail"]
    /\ UNCHANGED <<ev, received, nops, obs, trail>>

\* an update with the $set and without the $unset
VoidEarningKeepDates(d) == [d EXCEPT !.status = "CANCELED"]

\* $set {status: CANCELED}, $unset creditDate, expirateDate, availableCashback
VoidEarning(d) ==
    [d EXCEPT !.status = "CANCELED", !.creditDate = Unset,
              !.expirateDate = Unset, !.availableCashback = Unset]

cancelEarning(p) ==
    /\ procs[p].pc = "can_void"
    /\ sales' = [sales EXCEPT ![procs[p].saleId] = VoidEarning(@)]
    /\ procs' = [procs EXCEPT ![p].pc = "can_tail"]
    /\ UNCHANGED <<ev, received, nops, obs, trail>>

\* a cancel that takes the status back when the collaborator fails
cancelNotifyUndo(p) ==
    /\ procs[p].pc = "can_tail"
    /\ \E fails \in BOOLEAN :
          /\ procs' = [procs EXCEPT ![p] =
                 [@ EXCEPT !.pc = "end",
                           !.outcome = IF fails THEN "COLLABORATOR_ERROR" ELSE "ok"]]
          /\ sales' = IF fails THEN [sales EXCEPT ![procs[p].saleId].status = "PENDING"]
                      ELSE sales
    /\ UNCHANGED <<ev, received, nops, obs, trail>>

\* _findOrCreateDitoUser is awaited after the cancellation was written
cancelNotify(p) ==
    /\ procs[p].pc = "can_tail"
    /\ \E fails \in BOOLEAN :
          procs' = [procs EXCEPT ![p] =
              [@ EXCEPT !.pc = "end",
                        !.outcome = IF fails THEN "COLLABORATOR_ERROR" ELSE "ok"]]
    /\ UNCHANGED <<ev, sales, received, nops, obs, trail>>

\* the handler's promise settles; its locals are gone
settle(p) ==
    /\ procs[p].pc = "end"
    /\ procs' = [procs EXCEPT ![p] = IdleProc]
    /\ UNCHANGED <<ev, sales, received, nops, obs, trail>>

(* ------------------------------- update -------------------------------- *)
\* findOneAndUpdate({_id: id}, {$set: {...updateData}}) with updateData = {status}
update(id, status) ==
    /\ nops < MaxOps
    /\ id \in Ids(sales)
    /\ sales[id].status # status
    /\ sales' = [sales EXCEPT ![id].status = status]
    /\ nops' = nops + 1
    /\ trail' = NoTrail
    /\ UNCHANGED <<ev, received, procs, obs>>

(* ------------------- the sweeps outside this service ------------------- *)
\* release of a PENDING earning on its credit date
release(i) ==
    /\ i \in Ids(sales)
    /\ sales[i].status = "PENDING"
    /\ sales' = [sales EXCEPT ![i] =
           [@ EXCEPT !.status = "AVAILABLE", !.availableCashback = sales[i].totalCashback]]
    /\ trail' = NoTrail
    /\ UNCHANGED <<ev, received, procs, nops, obs>>

\* expiry: time passes date d, every AVAILABLE record due by then expires
Due(coll, d) ==
    {i \in Ids(coll) : coll[i].status = "AVAILABLE" /\ coll[i].expirateDate <= d}

expire(d) ==
    /\ Due(sales, d) # {}
    /\ sales' = [i \in Ids(sales) |->
                    IF i \in Due(sales, d) THEN [sales[i] EXCEPT !.status = "EXPIRED"]
                    ELSE sales[i]]
    /\ UNCHANGED <<ev, received, procs, nops, obs, trail>>

(* ------------------------- campaign evaluation ------------------------- *)
\* A campaign: code, salesChannel and subsidiariesList (sets), paymentMethod
\* (sequence of [type, flags], flags = {} when the entry has none), rules
\* (sequence of functions over RuleKeys, "" for a key the rule leaves open),
\* and the numbers, 0 when the field is not set.  A sale under evaluation:
\* salesChannel, origin (order.origin), paymentMethod (sequence of
\* [type, flag]), items, verification (instant, in hours), customer id.
RuleKeys ==
    {"group", "category1", "category2", "category3", "category4",
     "gender", "colorCode", "model", "size"}

\* String.prototype.trim on the segments the model uses
Trim(seg) == IF seg = " M " THEN "M" ELSE seg

\* what the forEach body writes to an item before colorCode.trim() or
\* size.trim() throws on a missing segment: model, and colorCode when the
\* part number has two segments
HalfProcessed(item) ==
    [item EXCEPT !.keys =
        IF Len(item.partnumber) = 1
        THEN [@ EXCEPT !["model"] = Trim(item.partnumber[1])]
        ELSE [@ EXCEPT !["model"] = Trim(item.partnumber[1]),
                       !["colorCode"] = Trim(item.partnumber[2])]]

\* _processItems: throws (ok FALSE) at the first item whose part number
\* splits into fewer than 3 segments; the items before it are processed and
\* the item itself is left half processed
RECURSIVE processItems(_, _)
processItems(items, i) ==
    IF i > Len(items) THEN [ok |-> TRUE, items |-> items]
    ELSE IF Len(items[i].partnumber) < 3
    THEN [ok |-> FALSE, items |-> [items EXCEPT ![i] = HalfProcessed(items[i])]]
    ELSE processItems(
           [items EXCEPT ![i] =
               [@ EXCEPT !.keys = [@ EXCEPT !["model"] = Trim(items[i].partnumber[1]),
                                            !["colorCode"] = Trim(items[i].partnumber[2]),
                                            !["size"] = Trim(items[i].partnumber[3])],
                         !.totalPrice = items[i].unitPrice * items[i].quantity]],
           i + 1)

Includes(seq, x) == \E k \in 1..Len(seq) : seq[k] = x

\* the items of a sale that carry the campaign's code
MatchedItems(campaign, sale) ==
    {i \in 1..Len(sale.items) : Includes(sale.items[i].matchedCampaigns, campaign.code)}

checkMinSaleValueRule(campaign, sale) ==
    LET M == MatchedItems(campaign, sale)
        totalValue == SumOver(M, [i \in M |-> sale.items[i].totalPrice])
    IN ~(campaign.minSaleValue # 0 /\ totalValue < campaign.minSaleValue)

checkMaxsalesCartRule(campaign, sale) ==
    LET M == MatchedItems(campaign, sale)
        totalItems == SumOver(M, [i \in M |-> sale.items[i].quantity])
    IN ~(campaign.maxProductsCart # 0 /\ totalItems > campaign.maxProductsCart)

checkSalesChannelRule(campaign, sale) == sale.salesChannel \in campaign.salesChannel

checkSubsidiariesChannelRule(campaign, sale) ==
    campaign.subsidiariesList = {} \/ sale.origin \in campaign.subsidiariesList

CardTypes == {"CREDIT_CARD", "DEBIT_CARD"}

checkPaymentMethodRule(campaign, sale) ==
    \A k \in 1..Len(sale.paymentMethod) :
       LET pM == sale.paymentMethod[k]
           same == SelectSeq(campaign.paymentMethod, LAMBDA q : q.type = pM.type)
       IN /\ same # <<>>
          /\ (same[1].type \in CardTypes /\ same[1].flags # {}) => pM.flag \in same[1].flags

\* the rule leaves the key open, or the item has the rule's value
RuleMatches(rule, item) ==
    \A key \in RuleKeys : rule[key] = "" \/ rule[key] = item.keys[key]

RECURSIVE Repeat(_, _)
Repeat(x, n) == IF n = 0 THEN <<>> ELSE <<x>> \o Repeat(x, n - 1)

\* _checkItemsThatFollowRules: every item is marked not eligible and gets
\* the campaign's code pushed once per rule it satisfies
checkItemsThatFollowRules(campaign, sale) ==
    LET hits(item) ==
            Cardinality({r \in 1..Len(campaign.rules) : RuleMatches(campaign.rules[r], item)})
        items == [i \in 1..Len(sale.items) |->
                     [sale.items[i] EXCEPT
                         !.eligible = FALSE,
                         !.matchedCampaigns = @ \o Repeat(campaign.code, hits(sale.items[i]))]]
    IN [ok |-> \E i \in 1..Len(sale.items) : hits(sale.items[i]) > 0,
        sale |-> [sale EXCEPT !.items = items]]

\* _checkSaleCampaign with the two steps of the item check at other places
\* of the chain: cart size and minimum value are looked at before the
\* payment method
checkSaleCampaignCartFirst(coll, campaign, sale, cpf) ==
    LET checked == checkItemsThatFollowRules(campaign, sale)
        fail(reason, s) == [isValid |-> FALSE, reason |-> reason, sale |-> s]
    IN IF ~checkSalesChannelRule(campaign, sale) THEN fail("FAIL_SALES_CHANNEL_RULE", sale)
       ELSE IF ~checkSubsidiariesChannelRule(campaign, sale)
            THEN fail("FAIL_SALES_SUBSIDIARIES_RULE", sale)
       ELSE IF ~checked.ok THEN fail("FAIL_ITEMS_RULE", checked.sale)
       ELSE IF campaign.maxProductsCart # 0 /\ ~checkMaxsalesCartRule(campaign, checked.sale)
            THEN fail("FAIL_MAX_SALES_CART_RULE", checked.sale)
       ELSE IF campaign.minSaleValue # 0 /\ ~checkMinSaleValueRule(campaign, checked.sale)
            THEN fail("FAIL_MIN_VALUE_RULE", checked.sale)
       ELSE IF ~checkPaymentMethodRule(campaign, sale)
            THEN fail("FAIL_PAYMENT_METHOD_RULE", checked.sale)
       ELSE IF campaign.cpfParticipationLimit # 0
               /\ ~checkCpfParticipationLimit(coll, campaign.code,
                                              campaign.cpfParticipationLimit, cpf)
            THEN fail("FAIL_CPF_PARTICIPATION_LIMIT_RULE", checked.sale)
       ELSE [isValid |-> TRUE, reason |-> "",
             sale |-> [checked.sale EXCEPT !.matchedCampaigns = Append(@, campaign.code)]]

\* _checkSaleCampaign: the checks in the order of the else-if chain; the item
\* check, the first one that writes to the sale, runs only when the three
\* before it passed.  Returns the verdict and the sale as the call left it.
checkSaleCampaign(coll, campaign, sale, cpf) ==
    LET checked == checkItemsThatFollowRules(campaign, sale)
        fail(reason, s) == [isValid |-> FALSE, reason |-> reason, sale |-> s]
    IN IF ~checkSalesChannelRule(campaign, sale) THEN fail("FAIL_SALES_CHANNEL_RULE", sale)
       ELSE IF ~checkSubsidiariesChannelRule(campaign, sale)
            THEN fail("FAIL_SALES_SUBSIDIARIES_RULE", sale)
       ELSE IF ~checkPaymentMethodRule(campaign, sale)
            THEN fail("FAIL_PAYMENT_METHOD_RULE", sale)
       ELSE IF ~checked.ok THEN fail("FAIL_ITEMS_RULE", checked.sale)
       ELSE IF campaign.maxProductsCart # 0 /\ ~checkMaxsalesCartRule(campaign, checked.sale)
            THEN fail("FAIL_MAX_SALES_CART_RULE", checked.sale)
       ELSE IF campaign.minSaleValue # 0 /\ ~checkMinSaleValueRule(campaign, checked.sale)
            THEN fail("FAIL_MIN_VALUE_RULE", checked.sale)
       ELSE IF campaign.cpfParticipationLimit # 0
               /\ ~checkCpfParticipationLimit(coll, campaign.code,
                                              campaign.cpfParticipationLimit, cpf)
            THEN fail("FAIL_CPF_PARTICIPATION_LIMIT_RULE", checked.sale)
       ELSE [isValid |-> TRUE, reason |-> "",
             sale |-> [checked.sale EXCEPT !.matchedCampaigns = Append(@, campaign.code)]]

\* Instants are whole hours; the server's clock is tz hours behind UTC
\* (getTimezoneOffset() / 60).
updateHours(numOfHours, date) == date - numOfHours

addDays(baseDate, number) == baseDate + 24 * number

\* date-fns startOfDay and endOfDay work on the server's local calendar day;
\* at the grain of hours the day ends with its hour 23
startOfDay(date, tz) == ((date - tz) \div 24) * 24 + tz

\* the end of the day before
endOfDayBefore(date, tz) == startOfDay(date, tz) - 1

endOfDay(date, tz) == startOfDay(date, tz) + 23

\* unitPrice, percentCashback for which the double product
\* unitPrice * (percentCashback / 100) falls just below the integer that
\* unitPrice * percentCashback / 100 is: 100 * 0.29 = 28.999999999999996,
\* 200 * 0.29 = 57.99999999999999
Shortfall == {<<100, 29>>, <<200, 29>>}

\* _.floor(item.unitPrice * (campaign.percentCashback / 100)) in doubles
floorPercent(unitPrice, percentCashback) ==
    IF <<unitPrice, percentCashback>> \in Shortfall
    THEN (unitPrice * percentCashback) \div 100 - 1
    ELSE (unitPrice * percentCashback) \div 100

\* one pass of the forEach of the percentage mode
percentItem(campaign, item) ==
    IF Includes(item.matchedCampaigns, campaign.code)
    THEN [item EXCEPT !.eligible = TRUE,
                      !.unitCashback = floorPercent(item.unitPrice, campaign.percentCashback),
                      !.totalCashback =
                          floorPercent(item.unitPrice, campaign.percentCashback) * item.quantity]
    ELSE [item EXCEPT !.eligible = FALSE, !.totalCashback = Unset, !.unitCashback = Unset]

\* the cap that sets the total and leaves the items' cashback fields
applyCapKeepItems(campaign, sale, total) ==
    IF campaign.cashbackLimit # 0 /\ campaign.cashbackLimit < total
    THEN [sale EXCEPT !.totalCashback = campaign.cashbackLimit]
    ELSE sale

\* the cap: tested against the total the item loop accumulated
applyCap(campaign, sale, total) ==
    IF campaign.cashbackLimit # 0 /\ campaign.cashbackLimit < total
    THEN [sale EXCEPT
            !.totalCashback = campaign.cashbackLimit,
            !.items = [i \in 1..Len(sale.items) |->
                          [sale.items[i] EXCEPT !.totalCashback = Unset, !.unitCashback = Unset]]]
    ELSE sale

\* the local total of _processSale: what the item loop added up, 0 when the
\* loop did not run
AccumulatedTotal(campaign, sale) ==
    IF campaign.percentCashback = 0 THEN 0
    ELSE LET M == MatchedItems(campaign, sale)
         IN SumOver(M, [i \in M |-> percentItem(campaign, sale.items[i]).totalCashback])

processSale(campaign, sale, tz) ==
    LET verificationDate ==
            updateHours(tz, startOfDay(updateHours(0 - tz, sale.verification), tz))
        creditDate ==
            IF sale.salesChannel = "PDV" /\ campaign.daysToCreditPdv # 0
            THEN addDays(verificationDate, campaign.daysToCreditPdv)
            ELSE addDays(verificationDate, campaign.daysToCreditEcom)
        expirateDate ==
            updateHours(tz, endOfDay(updateHours(0 - tz,
                                                 addDays(creditDate, campaign.daysToRescue)), tz))
        total == AccumulatedTotal(campaign, sale)
        dated == [sale EXCEPT !.usedCampaign = campaign.code,
                              !.creditDate = creditDate,
                              !.expirateDate = expirateDate]
        paid == IF campaign.percentCashback # 0
                THEN [dated EXCEPT
                        !.items = [i \in 1..Len(sale.items) |->
                                      percentItem(campaign, sale.items[i])],
                        !.totalCashback = total]
                ELSE [dated EXCEPT !.totalCashback = campaign.valueCashback]
    IN applyCap(campaign, paid, total)

\* _.sortBy: stable, ascending by totalCashback
RECURSIVE sortBy(_)
sortBy(seq) ==
    IF seq = <<>> THEN <<>>
    ELSE LET rest == sortBy(SubSeq(seq, 1, Len(seq) - 1))
             x == seq[Len(seq)]
             before == SelectSeq(rest, LAMBDA y : y.totalCashback <= x.totalCashback)
             after == SelectSeq(rest, LAMBDA y : y.totalCashback > x.totalCashback)
         IN before \o <<x>> \o after

\* the selector that takes the first candidate of the sorted list
findSaleWithBetterCampaignShift(candidates) == sortBy(candidates)[1]

\* _findSaleWithBetterCampaign: the last of the sorted list
findSaleWithBetterCampaign(candidates) == sortBy(candidates)[Len(candidates)]

\* marks that look at any campaign's code instead of the used one
markEligibleAnyCampaign(sale) ==
    [sale EXCEPT !.items = [i \in 1..Len(sale.items) |->
        [sale.items[i] EXCEPT !.eligible = sale.items[i].matchedCampaigns # <<>>]]]

\* item.eligible = item.matchedCampaigns.includes(sale.usedCampaign)
markEligibleItemsBasedOnUsedCampaign(sale) ==
    [sale EXCEPT !.items = [i \in 1..Len(sale.items) |->
        [sale.items[i] EXCEPT
            !.eligible = Includes(sale.items[i].matchedCampaigns, sale.usedCampaign)]]]

\* one entry of saleWithOtherCampaigns
Summary(sale) ==
    [usedCampaign |-> sale.usedCampaign, creditDate |-> sale.creditDate,
     expirateDate |-> sale.expirateDate, totalCashback |-> sale.totalCashback]

\* the document _generateCashback assembles from the selected candidate
SaleData(best, candidates, invalidCampaigns) ==
    [status |-> "PENDING",
     invoiceKey |-> best.invoiceKey,
     cpf |-> best.customer,
     matchedCampaigns |-> best.matchedCampaigns,
     usedCampaign |-> best.usedCampaign,
     totalCashback |-> best.totalCashback,
     items |-> best.items,
     creditDate |-> best.creditDate,
     expirateDate |-> best.expirateDate,
     invalidCampaigns |-> invalidCampaigns,
     saleWithOtherCampaigns |-> [k \in 1..Len(candidates) |-> Summary(candidates[k])]]

(* ------------------- the evaluation of one submission ------------------ *)
\* ev follows one earning submission through _calculeCashback and the
\* assembly of its document in _generateCashback:
\*   start -> loop (one campaign per step, each on the same sale object)
\*         -> calculated -> assembled -> persisted,   or -> threw
\* and, when it was simulateCashback that called _calculeCashback,
\*   calculated -> simulated
\* ledger and submitted keep the ledger and the sale as they were when the
\* submission arrived.
OpenRule == [key \in RuleKeys |-> ""]

RuleOn(key, value) == [OpenRule EXCEPT ![key] = value]

RawItem(group, partnumber, unitPrice, quantity) ==
    [partnumber |-> partnumber, keys |-> RuleOn("group", group),
     unitPrice |-> unitPrice, quantity |-> quantity, totalPrice |-> 0,
     matchedCampaigns |-> <<>>, eligible |-> FALSE,
     unitCashback |-> Unset, totalCashback |-> Unset]

\* "m1.c1. M " split at the dots, and a part number without dots
PartNumbers == {<<"m1", "c1", " M ">>}

BadPartNumbers == {<<"m1">>, <<"m1", "c1">>}

GoodItems ==
    {RawItem(g, pn, up, q) : g \in {"g1", "g2"}, pn \in PartNumbers,
                             up \in {100, 155}, q \in {1, 2}}

ItemLists ==
    {<<it>> : it \in GoodItems}
    \cup {<<RawItem("g1", pn, 100, 1), it>> : pn \in PartNumbers, it \in GoodItems}
    \cup {<<RawItem("g1", pn, 100, 1)>> : pn \in BadPartNumbers}
    \cup {<<RawItem("g1", good, 100, 1), RawItem("g1", bad, 100, 1)>> :
             good \in PartNumbers, bad \in BadPartNumbers}

CustomerIds == {"11122233344"}

OtherCustomer == "55566677788"

\* hour 2 and hour 23 of the UTC day that starts at hour 24
Verifications == {26, 47}

\* a server west of UTC, one on UTC, one east of it
TzOffsets == {3, 0, -2}

EvalSales ==
    {[invoiceKey |-> 300,
      salesChannel |-> ch, origin |-> "s1", paymentMethod |-> <<pm>>, items |-> its,
      verification |-> v, customer |-> c, matchedCampaigns |-> <<>>,
      usedCampaign |-> "none", creditDate |-> Unset, expirateDate |-> Unset,
      totalCashback |-> Unset] :
       ch \in {"PDV", "ECOM"},
       pm \in {[type |-> "CREDIT_CARD", flag |-> "visa"], [type |-> "PIX", flag |-> ""]},
       its \in ItemLists, v \in Verifications, c \in CustomerIds}

AnyCard == <<[type |-> "CREDIT_CARD", flags |-> {}]>>

MasterOrPix == <<[type |-> "CREDIT_CARD", flags |-> {"master"}], [type |-> "PIX", flags |-> {}]>>

AllMethods == <<[type |-> "CREDIT_CARD", flags |-> {}], [type |-> "PIX", flags |-> {}]>>

\* a campaign that admits every sale and pays nothing yet
BaseCampaign ==
    [code |-> "k0", salesChannel |-> {"PDV", "ECOM"}, subsidiariesList |-> {},
     paymentMethod |-> AllMethods, rules |-> <<OpenRule>>,
     maxProductsCart |-> 0, minSaleValue |-> 0, cpfParticipationLimit |-> 0,
     percentCashback |-> 0, valueCashback |-> 0, cashbackLimit |-> 0,
     daysToCreditPdv |-> 0, daysToCreditEcom |-> 5, daysToRescue |-> 30]

\* campaigns that differ in what they admit
RuleFamily ==
    {[BaseCampaign EXCEPT !.salesChannel = ch, !.subsidiariesList = sub,
                          !.paymentMethod = pm, !.rules = rules,
                          !.maxProductsCart = maxCart, !.minSaleValue = minValue,
                          !.cpfParticipationLimit = limit, !.percentCashback = 10] :
       ch \in {{"PDV"}, {"PDV", "ECOM"}},
       sub \in {{}, {"s2"}},
       pm \in {AnyCard, MasterOrPix},
       rules \in {<<RuleOn("group", "g1")>>, <<RuleOn("group", "g1"), RuleOn("size", "M")>>},
       maxCart \in {0, 1},
       minValue \in {0, 150},
       limit \in {0, 2}}

\* campaigns that admit every sale and differ in what they pay
CalcFamily ==
    {[BaseCampaign EXCEPT !.percentCashback = mode[1], !.valueCashback = mode[2],
                          !.cashbackLimit = cap, !.daysToCreditPdv = pdv] :
       mode \in {<<10, 0>>, <<29, 0>>, <<0, 50>>}, cap \in {0, 20}, pdv \in {0, 3}}

Fixed(valueCashback) == [BaseCampaign EXCEPT !.valueCashback = valueCashback]

\* campaigns that admit every sale and differ in their day counts
DateFamily ==
    {[BaseCampaign EXCEPT !.valueCashback = 50, !.daysToCreditPdv = pdv,
                          !.daysToCreditEcom = ecom, !.daysToRescue = rescue] :
       pdv \in {0, 3}, ecom \in {0, 5}, rescue \in {0, 1, 30}}

Codes == <<"k1", "k2", "k3">>

\* getCampaigns answers with campaigns of distinct codes
Coded(list) == [k \in 1..Len(list) |-> [list[k] EXCEPT !.code = Codes[k]]]

DateLists == {Coded(<<c>>) : c \in DateFamily}

\* two campaigns that turn away different sales
StrictFamily ==
    {[BaseCampaign EXCEPT !.salesChannel = {"PDV"}, !.percentCashback = 10],
     [BaseCampaign EXCEPT !.paymentMethod = AnyCard, !.maxProductsCart = 1,
                          !.percentCashback = 29]}

\* two campaigns whose rules pick different items
SplitFamily ==
    {[BaseCampaign EXCEPT !.rules = <<RuleOn("group", "g1")>>, !.valueCashback = 500],
     [BaseCampaign EXCEPT !.rules = <<RuleOn("group", "g2")>>, !.valueCashback = 50]}

SplitLists == {Coded(<<c, d>>) : c \in SplitFamily, d \in SplitFamily} \ {Coded(<<c, c>>) : c \in SplitFamily}

CampaignLists ==
    {Coded(<<c>>) : c \in RuleFamily \cup CalcFamily}
    \cup SplitLists
    \cup {Coded(<<c, d>>) : c \in {x \in CalcFamily : x.daysToCreditPdv = 0}, d \in CalcFamily}
    \cup {Coded(<<Fixed(500), Fixed(1200), Fixed(900)>>)}
    \cup {Coded(<<c, d>>) : c \in StrictFamily, d \in StrictFamily}
    \cup {<<>>}
    \cup DateLists

\* what the ledger holds when the sale arrives: earlier sales of the
\* customer, or of another one, each under the campaign it used
Own(usedCampaign) == [own |-> TRUE, usedCampaign |-> usedCampaign]

Foreign(usedCampaign) == [own |-> FALSE, usedCampaign |-> usedCampaign]

PriorLedgers ==
    {<<>>, <<Own("k1")>>, <<Own("k1"), Own("k1")>>, <<Own("k1"), Own("k9")>>,
     <<Own("k1"), Foreign("k1")>>}

PriorSales(customer, prior) ==
    [i \in 1..Len(prior) |->
        EarnedSale(IF prior[i].own THEN customer ELSE OtherCustomer,
                   200 + i, 10, 1, 0, prior[i].usedCampaign)]

NoData == [status |-> "none"]

InitEval ==
    /\ \E sale \in EvalSales, campaigns \in CampaignLists,
          prior \in PriorLedgers, tz \in TzOffsets :
          \* the hours of the sale and of the server vary with the day counts
          /\ campaigns \in DateLists \/ (tz = 3 /\ sale.verification = 26)
          /\ campaigns \in DateLists => prior = <<>>
          /\ sales = PriorSales(sale.customer, prior)
          /\ ev = [pc |-> "start", campaigns |-> campaigns, sale |-> sale, tz |-> tz,
                   ledger |-> PriorSales(sale.customer, prior), submitted |-> sale,
                   i |-> 1, validCampaigns |-> <<>>, invalidCampaigns |-> <<>>,
                   verdicts |-> <<>>, before |-> <<>>,
                   candidates |-> <<>>, best |-> NoData, data |-> NoData,
                   err |-> "", reasons |-> <<>>]
    /\ received = <<>>
    /\ procs = [p \in Procs |-> IdleProc]
    /\ nops = 0
    /\ obs = FALSE
    /\ trail = NoTrail

\* sale.items = this._processItems(sale.items)
calculeStart ==
    /\ ev.pc = "start"
    /\ LET done == processItems(ev.sale.items, 1)
       IN ev' = IF done.ok
                THEN [ev EXCEPT !.pc = "loop", !.sale.items = done.items]
                ELSE [ev EXCEPT !.pc = "threw", !.err = "TypeError", !.sale.items = done.items]
    /\ UNCHANGED <<sales, received, procs, nops, obs, trail>>

\* the loop files a rejection only for the first campaign it turns away
pushInvalidOnce(invalidCampaigns, r, campaign) ==
    IF r.isValid \/ invalidCampaigns # <<>> THEN invalidCampaigns
    ELSE Append(invalidCampaigns,
                [isValid |-> FALSE, reason |-> r.reason, campaign |-> campaign.code])

\* else invalidCampaigns.push({ isValid, reason, campaign: campaign.code })
pushInvalid(invalidCampaigns, r, campaign) ==
    IF r.isValid THEN invalidCampaigns
    ELSE Append(invalidCampaigns,
                [isValid |-> FALSE, reason |-> r.reason, campaign |-> campaign.code])

\* one turn of the for-await loop; verdicts and before keep, for every
\* campaign, what _checkSaleCampaign answered and the sale it was given
calculeCheck ==
    /\ ev.pc = "loop"
    /\ ev.i <= Len(ev.campaigns)
    /\ LET campaign == ev.campaigns[ev.i]
           r == checkSaleCampaign(sales, campaign, ev.sale, ev.sale.customer)
       IN ev' = [ev EXCEPT
                   !.sale = r.sale,
                   !.i = @ + 1,
                   !.verdicts = Append(@, [isValid |-> r.isValid, reason |-> r.reason]),
                   !.before = Append(@, ev.sale),
                   !.validCampaigns = IF r.isValid THEN Append(@, campaign) ELSE @,
                   !.invalidCampaigns = pushInvalid(@, r, campaign)]
    /\ UNCHANGED <<sales, received, procs, nops, obs, trail>>

\* no campaign admitted the sale
calculeThrow ==
    /\ ev.pc = "loop"
    /\ ev.i > Len(ev.campaigns)
    /\ ev.validCampaigns = <<>>
    /\ ev' = [ev EXCEPT !.pc = "threw", !.err = "SALE_NOT_MATCH_ANY_CAMPAIGN",
                        !.reasons = ev.invalidCampaigns]
    /\ UNCHANGED <<sales, received, procs, nops, obs, trail>>

\* validCampaigns.map(... _processSale(validCampaign, clone of sale))
calculeReturn ==
    /\ ev.pc = "loop"
    /\ ev.i > Len(ev.campaigns)
    /\ ev.validCampaigns # <<>>
    /\ ev' = [ev EXCEPT
                !.pc = "calculated",
                !.candidates = [k \in 1..Len(ev.validCampaigns) |->
                                   processSale(ev.validCampaigns[k], ev.sale, ev.tz)]]
    /\ UNCHANGED <<sales, received, procs, nops, obs, trail>>

\* the selection (best keeps what the selector returned), the eligibility
\* marks and the document handed to the upsert
assembleSale ==
    /\ ev.pc = "calculated"
    /\ LET saleWithBestCashback == findSaleWithBetterCampaign(ev.candidates)
           marked == markEligibleItemsBasedOnUsedCampaign(saleWithBestCashback)
       IN ev' = [ev EXCEPT !.pc = "assembled",
                           !.best = saleWithBestCashback,
                           !.data = SaleData(marked, ev.candidates, ev.invalidCampaigns)]
    /\ UNCHANGED <<sales, received, procs, nops, obs, trail>>

\* simulateCashback after its own call of _calculeCashback returned: the
\* ban list, the selection and the marks, and the object it returns, whose
\* saleWithOtherCampaigns is mapped from saleWithCashback, a name
\* simulateCashback does not declare
simulateCashback ==
    /\ ev.pc = "calculated"
    /\ \E isUserInBannedList \in BOOLEAN :
          ev' = IF isUserInBannedList
                THEN [ev EXCEPT !.pc = "simulated", !.err = "USER_FOUND_BANNEDLIST"]
                ELSE [ev EXCEPT !.pc = "simulated", !.err = "ReferenceError",
                                !.best = findSaleWithBetterCampaign(ev.candidates)]
    /\ UNCHANGED <<sales, received, procs, nops, obs, trail>>

\* the record the upsert writes from the assembled document
Persisted(coll, data) ==
    LET written == Upsert(coll, [cpf |-> data.cpf, invoiceKey |-> data.invoiceKey,
                                 cashback |-> data.totalCashback,
                                 expirateDate |-> data.expirateDate,
                                 usedCampaign |-> data.usedCampaign], 0)
        k == FirstOf({i \in Ids(written) : written[i].invoiceKey = data.invoiceKey})
    IN [written EXCEPT ![k].creditDate = data.creditDate]

\* getUserByCpf, the second look for the invoice key, the upsert
persistSale ==
    /\ ev.pc = "assembled"
    /\ \E fails \in BOOLEAN :
          IF fails
          THEN /\ ev' = [ev EXCEPT !.pc = "threw", !.err = "COLLABORATOR_ERROR"]
               /\ sales' = sales
          ELSE IF HasInvoiceKey(sales, ev.data.invoiceKey)
          THEN /\ ev' = [ev EXCEPT !.pc = "threw",
                                    !.err = "CONFLICT_DUPLICATE_INVOICE_KEY_ERROR"]
               /\ sales' = sales
          ELSE /\ ev' = [ev EXCEPT !.pc = "persisted"]
               /\ sales' = Persisted(sales, ev.data)
    /\ UNCHANGED <<received, procs, nops, obs, trail>>

NextEval ==
    \/ calculeStart
    \/ calculeCheck
    \/ calculeThrow
    \/ calculeReturn
    \/ assembleSale
    \/ persistSale
    \/ simulateCashback

SpecEval == InitEval /\ [][NextEval]_vars

(* ---------------------------- specifications --------------------------- *)
Step(p) ==
    \/ create(p)
    \/ processUnprocessedSales(p)
    \/ generateCashback(p)
    \/ redeemCreateSale(p)
    \/ useCashbackFind(p)
    \/ useCashbackUpdateOne(p)
    \/ redeemNotify(p)
    \/ redeemSaveHistory(p)
    \/ earnCheckDuplicate(p)
    \/ earnCalculate(p)
    \/ earnRecheckDuplicate(p)
    \/ earnUpsert(p)
    \/ earnNotify(p)
    \/ markProcessed(p)
    \/ cancel(p)
    \/ cancelRestore(p)
    \/ cancelMarkCanceled(p)
    \/ cancelEarning(p)
    \/ cancelNotify(p)
    \/ settle(p)

Sweep == (\E i \in Ids(sales) : release(i)) \/ (\E d \in Dates : expire(d))

AllIdle == \A p \in Procs : procs[p].pc = "idle"

Init == Start /\ obs = FALSE

\* handlers interleave at every await
Next == (\E p \in Procs : Step(p)) \/ createAllSales \/ Sweep

Spec == Init /\ [][Next]_vars

\* one handler at a time, each run to completion
NextSeq == Step(1) \/ (AllIdle /\ (createAllSales \/ Sweep))

InitSeq == Start /\ obs = TRUE

SpecSeq == InitSeq /\ [][NextSeq]_vars

\* SpecSeq together with update
NextAdmin ==
    NextSeq \/ (AllIdle /\ \E i \in Ids(sales), st \in Statuses : update(i, st))

SpecAdmin == InitSeq /\ [][NextAdmin]_vars

(* ----------------------- a resubmitted invoice ------------------------- *)
\* redemptions of c1 under the invoice key of the prior submission, whose
\* Sale record is in the ledger
Resubmissions ==
    [usedCashback : {TRUE}, usedCashbackValue : Amounts,
     cpf : {"c1"}, invoiceKey : {100}, cashback : {0}, expirateDate : {0},
     usedCampaign : {"none"}, limit : {0}]

\* createAllSales handed such a submission
createAllSalesAgain ==
    /\ CanReceive
    /\ \E data \in Resubmissions : received' = Append(received, NewReceived(data))
    /\ UNCHANGED <<ev, sales, procs, nops, obs, trail>>

\* SpecSeq with the resubmission among the inputs
NextDup == NextSeq \/ (AllIdle /\ createAllSalesAgain)

SpecDup == InitSeq /\ [][NextDup]_vars

(* -------------------------------- wallet ------------------------------- *)
\* The dates of the ledger count months; `now` is the month of the call.
Nows == {1, 3}

\* _getLastRescues: $match {cpf, creditDate >= two months before now},
\* $sum totalCashback; a document without creditDate does not match
getLastRescues(coll, cpf, now) ==
    LET S == {i \in Ids(coll) : /\ coll[i].cpf = cpf
                                /\ coll[i].creditDate # Unset
                                /\ coll[i].creditDate >= now - 2}
    IN SumOver(S, [i \in S |-> Num(coll[i].totalCashback)])

\* _getCloseToExpire: $match {cpf, status: AVAILABLE, expirateDate <= one
\* month after now}, $sum availableCashback
getCloseToExpire(coll, cpf, now) ==
    LET S == {i \in Ids(coll) : /\ coll[i].cpf = cpf
                                /\ coll[i].status = "AVAILABLE"
                                /\ coll[i].expirateDate # Unset
                                /\ coll[i].expirateDate <= now + 1}
    IN SumOver(S, [i \in S |-> Num(coll[i].availableCashback)])

\* wallet({cpf}), one step per await; ev holds the call's locals, and
\* ev.ledger the collection as the first aggregate read it
walletBalance ==
    /\ ev = NoEval
    /\ nops < MaxOps
    /\ nops' = nops + 1
    /\ \E cpf \in Cpfs, now \in Nows :
          ev' = [pc |-> "w_rescues", cpf |-> cpf, now |-> now, ledger |-> sales,
                 balance |-> getBalance(sales, cpf),
                 lastRescues |-> 0, closeToExpire |-> 0, err |-> "none"]
    /\ UNCHANGED <<sales, received, procs, obs, trail>>

walletLastRescues ==
    /\ ev # NoEval /\ ev.pc = "w_rescues"
    /\ ev' = [ev EXCEPT !.pc = "w_expire",
                        !.lastRescues = getLastRescues(sales, ev.cpf, ev.now)]
    /\ UNCHANGED <<sales, received, procs, nops, obs, trail>>

walletCloseToExpire ==
    /\ ev # NoEval /\ ev.pc = "w_expire"
    /\ ev' = [ev EXCEPT !.pc = "w_notify",
                        !.closeToExpire = getCloseToExpire(sales, ev.cpf, ev.now)]
    /\ UNCHANGED <<sales, received, procs, nops, obs, trail>>

\* updateUser is awaited: when it rejects, so does wallet
walletReturn ==
    /\ ev # NoEval /\ ev.pc = "w_notify"
    /\ \E fails \in BOOLEAN :
          ev' = [ev EXCEPT !.pc = "w_end",
                          !.err = IF fails THEN "COLLABORATOR_ERROR" ELSE "none"]
    /\ UNCHANGED <<sales, received, procs, nops, obs, trail>>

walletSettle ==
    /\ ev # NoEval /\ ev.pc = "w_end"
    /\ ev' = NoEval
    /\ UNCHANGED <<sales, received, procs, nops, obs, trail>>

\* a wallet call next to the handlers of SpecSeq, interleaved at its awaits
NextWallet ==
    \/ NextSeq
    \/ walletBalance
    \/ walletLastRescues
    \/ walletCloseToExpire
    \/ walletReturn
    \/ walletSettle

SpecWallet == InitSeq /\ [][NextWallet]_vars

\* Two create requests of customer c2 were accepted one after the other,
\* each for a sale that the campaign k1, with its cpfParticipationLimit,
\* is the one to pay; both handlers are in flight.
LimitData(key, limit) ==
    [usedCashback |-> FALSE, usedCashbackValue |-> 0, cpf |-> "c2", invoiceKey |-> key,
     cashback |-> 1, expirateDate |-> 1, usedCampaign |-> "k1", limit |-> limit]

Limits == {1, 2}

InitLimit ==
    /\ \E limit \in Limits, prior \in {<<>>, <<Own("k1")>>} :
          /\ sales = PriorSales("c2", prior)
          /\ received = <<NewReceived(LimitData(102, limit)), NewReceived(LimitData(103, limit))>>
    /\ procs = [p \in Procs |->
                  [IdleProc EXCEPT !.op = "create", !.pc = "gen_balance", !.rs = p]]
    /\ nops = Cardinality(Procs)
    /\ obs = FALSE
    /\ trail = NoTrail
    /\ ev = NoEval

NextLimit ==
    \E p \in Procs :
       \/ generateCashback(p)
       \/ earnCheckDuplicate(p)
       \/ earnCalculate(p)
       \/ earnRecheckDuplicate(p)
       \/ earnUpsert(p)
       \/ earnNotify(p)
       \/ markProcessed(p)
       \/ settle(p)

SpecLimit == InitLimit /\ [][NextLimit]_vars

\* Two create requests of customer c2 under one invoice key, for sales the
\* campaign k1 pays differently, were accepted one after the other; both
\* handlers are in flight.
RewriteData(cashback) ==
    [usedCashback |-> FALSE, usedCashbackValue |-> 0, cpf |-> "c2", invoiceKey |-> 102,
     cashback |-> cashback, expirateDate |-> 1, usedCampaign |-> "k1", limit |-> 0]

InitRewrite ==
    /\ \E prior \in PriorLedgers, first \in {1, 2} :
          /\ sales = PriorSales("c2", prior)
          /\ received = <<NewReceived(RewriteData(first)), NewReceived(RewriteData(3 - first))>>
    /\ procs = [p \in Procs |->
                  [IdleProc EXCEPT !.op = "create", !.pc = "gen_balance", !.rs = p]]
    /\ nops = Cardinality(Procs)
    /\ obs = FALSE
    /\ trail = NoTrail
    /\ ev = NoEval

SpecRewrite == InitRewrite /\ [][NextLimit]_vars

(* ------------------------------ properties ----------------------------- *)
\* what the ledger owes a customer, read off the documents one by one
AvailableBalance(coll, cpf) ==
    SumSeq([i \in Ids(coll) |->
               IF coll[i].cpf = cpf /\ coll[i].status = "AVAILABLE"
               THEN Num(coll[i].availableCashback) ELSE 0])

\* what a record lost between two ledgers
Debit(before, after, i) ==
    Num(before[i].availableCashback) - Num(after[i].availableCashback)

EntriesOf(cashbackUseHistory, id) ==
    SelectSeq(cashbackUseHistory, LAMBDA e : e.saleId = id)

EntriesNotOf(cashbackUseHistory, id) ==
    SelectSeq(cashbackUseHistory, LAMBDA e : e.saleId # id)

SourcesOf(history, i) == SelectSeq(history, LAMBDA h : h.saleId = i)

\* p stands right after _useCashback returned
Debited(p) == procs[p].pc = "red_tail"

\* p stands right after cancel wrote the cancellation of a redemption
CanceledRedemption(p) ==
    /\ procs[p].op = "cancel"
    /\ procs[p].pc = "can_tail"
    /\ procs[p].pre[procs[p].saleId].usedCashback

\* p is a cancel that has returned or thrown
CancelEnded(p) == procs[p].op = "cancel" /\ procs[p].pc = "end"

\* C1: a redemption debits the customer's AVAILABLE records soonest
\* expiration first: a record is debited only once every eligible record
\* that expires strictly before it has been emptied.
C1_SoonestExpirationFirst ==
    \A p \in Procs :
       Debited(p) =>
          LET pre == procs[p].pre
              E == WithCashback(pre, received[procs[p].rs].data.cpf)
          IN \A i \in E, j \in E :
                (/\ pre[j].expirateDate < pre[i].expirateDate
                 /\ Debit(pre, sales, i) > 0)
                => sales[j].availableCashback = 0

\* C2: a redemption of N that passes the balance check lowers the sum of
\* the customer's availableCashback by exactly N; every record it debits
\* gains exactly one cashbackUseHistory entry for the new sale, carrying the
\* amount taken from that record, and the history _useCashback returns has
\* exactly one entry per debited record with the same amount; nothing else
\* in the earned records changes.
C2_RedeemDebitsExactly ==
    \A p \in Procs :
       Debited(p) =>
          LET pr == procs[p]
              pre == pr.pre
              data == received[pr.rs].data
              touched == {i \in Ids(pre) : Debit(pre, sales, i) > 0}
          IN /\ AvailableBalance(pre, data.cpf) - AvailableBalance(sales, data.cpf)
                   = data.usedCashbackValue
             /\ Len(pr.history) = Cardinality(touched)
             /\ \A i \in Ids(pre) :
                   /\ EntriesNotOf(sales[i].cashbackUseHistory, pr.saleId)
                         = pre[i].cashbackUseHistory
                   /\ IF i \in touched
                      THEN /\ Len(EntriesOf(sales[i].cashbackUseHistory, pr.saleId)) = 1
                           /\ EntriesOf(sales[i].cashbackUseHistory, pr.saleId)[1].usedValue
                                 = Debit(pre, sales, i)
                           /\ Len(SourcesOf(pr.history, i)) = 1
                           /\ SourcesOf(pr.history, i)[1].usedValue = Debit(pre, sales, i)
                      ELSE sales[i] = pre[i]

\* a redemption that took from two records has just been written
C2_Witness ==
    \E p \in Procs : Debited(p) /\ Len(procs[p].history) = 2

\* p's call of _generateCashback failed with err
Failed(pr, after, err) ==
    IF pr.op = "create"
    THEN after.pc = "end" /\ after.outcome = err
    ELSE /\ Len(after.results) = Len(pr.results) + 1
         /\ after.results[Len(after.results)] = [rs |-> pr.rs, error |-> err]

\* C3: a redemption of more than the customer's available balance fails
\* with INSUFFICIENT_FUNDS at the balance check, which is its first step:
\* no sale is created and no record changes.
C3_InsufficientFundsNoMutation ==
    [][\A p \in Procs :
          (/\ procs[p].pc = "gen_balance"
           /\ procs'[p] # procs[p]
           /\ received[procs[p].rs].data.usedCashback
           /\ received[procs[p].rs].data.usedCashbackValue
                 > AvailableBalance(sales, received[procs[p].rs].data.cpf))
          => /\ Failed(procs[p], procs'[p], "INSUFFICIENT_FUNDS")
             /\ sales' = sales]_vars

\* the batch recorded INSUFFICIENT_FUNDS for a redemption of a customer who
\* holds a balance
C3_Witness ==
    \E p \in Procs :
       /\ procs[p].op = "batch"
       /\ procs[p].results # <<>>
       /\ procs[p].results[1].error = "INSUFFICIENT_FUNDS"
       /\ AvailableBalance(sales, "c1") > 0
       /\ sales = procs[p].pre

\* what the redemption sales of a customer that are not canceled record as
\* redeemed
Recorded(coll, cpf) ==
    SumSeq([i \in Ids(coll) |->
               IF coll[i].cpf = cpf /\ coll[i].usedCashback /\ coll[i].status # "CANCELED"
               THEN SumSeq(UsedValues(coll[i].history)) ELSE 0])

\* what has been taken out of the earned records of a customer
Removed(coll, cpf) ==
    SumSeq([i \in Ids(coll) |->
               IF coll[i].cpf = cpf /\ ~coll[i].usedCashback
                  /\ coll[i].status \in {"AVAILABLE", "EXPIRED"}
               THEN coll[i].totalCashback - Num(coll[i].availableCashback) ELSE 0])

\* no sale has been canceled
NothingCanceled == \A i \in Ids(sales) : sales[i].status # "CANCELED"

\* C4: redemptions of one customer that run concurrently never spend the
\* same balance twice: once every handler has settled, and as long as
\* nothing was canceled, what the customer's redemption sales record as
\* redeemed does not exceed what was taken out of the customer's earned
\* records.
C4_NoDoubleSpend ==
    (AllIdle /\ NothingCanceled) =>
       \A cpf \in Cpfs : Recorded(sales, cpf) <= Removed(sales, cpf)

\* C5: canceling a redemption gives every source record that is not
\* EXPIRED the usedValue of its history entry back and removes the
\* cashbackUseHistory entries of the canceled sale, leaving the others;
\* a redemption followed by its cancellation leaves every record that has
\* not expired with the availableCashback and cashbackUseHistory it had
\* before the redemption.
C5_CancelRestoresSources ==
    \A p \in Procs :
       CanceledRedemption(p) =>
          LET pr == procs[p]
              pre == pr.pre
              id == pr.saleId
          IN /\ \A i \in {pre[id].history[k].saleId : k \in 1..Len(pre[id].history)} :
                   pre[i].status # "EXPIRED" =>
                      /\ sales[i].availableCashback =
                            Num(pre[i].availableCashback)
                               + SumSeq(UsedValues(SourcesOf(pre[id].history, i)))
                      /\ sales[i].cashbackUseHistory =
                            EntriesNotOf(pre[i].cashbackUseHistory, id)
             /\ trail.sale = id =>
                   \A i \in Ids(trail.snap) :
                      sales[i].status # "EXPIRED" =>
                         /\ sales[i].availableCashback = trail.snap[i].availableCashback
                         /\ sales[i].cashbackUseHistory = trail.snap[i].cashbackUseHistory

\* the cancellation of the redemption that returned just before it, with a
\* source that has not expired
C5_Witness ==
    \E p \in Procs :
       /\ CanceledRedemption(p)
       /\ trail.sale = procs[p].saleId
       /\ \E k \in 1..Len(procs[p].history) :
             sales[procs[p].history[k].saleId].status = "AVAILABLE"

\* C6: canceling a redemption leaves every source record that is EXPIRED
\* exactly as it was (balance, cashbackUseHistory and all), while the
\* redemption sale still becomes CANCELED.
C6_ExpiredSourcesUntouched ==
    \A p \in Procs :
       CanceledRedemption(p) =>
          LET pr == procs[p]
          IN /\ sales[pr.saleId].status = "CANCELED"
             /\ \A k \in 1..Len(pr.history) :
                   pr.pre[pr.history[k].saleId].status = "EXPIRED" =>
                      sales[pr.history[k].saleId] = pr.pre[pr.history[k].saleId]

\* the cancellation of a redemption one of whose sources had expired
C6_Witness ==
    \E p \in Procs :
       /\ CanceledRedemption(p)
       /\ \E k \in 1..Len(procs[p].history) :
             procs[p].pre[procs[p].history[k].saleId].status = "EXPIRED"

\* C7: cancel of an AVAILABLE record fails with CANT_CANCEL_AVAILABLE_SALE,
\* of an EXPIRED record with CANT_CANCEL_EXPIRED_SALE, of an id that is not
\* in the collection with SALE_NOT_FOUND, and none of them changes a record.
C7_CancelGuards ==
    \A p \in Procs :
       CancelEnded(p) =>
          LET pr == procs[p]
              id == pr.saleId
          IN /\ id \notin Ids(pr.pre) =>
                   pr.outcome = "SALE_NOT_FOUND" /\ sales = pr.pre
             /\ (id \in Ids(pr.pre) /\ pr.pre[id].status = "AVAILABLE") =>
                   pr.outcome = "CANT_CANCEL_AVAILABLE_SALE" /\ sales = pr.pre
             /\ (id \in Ids(pr.pre) /\ pr.pre[id].status = "EXPIRED") =>
                   pr.outcome = "CANT_CANCEL_EXPIRED_SALE" /\ sales = pr.pre

\* cancel was called on a record that had expired
C7_Witness ==
    \E p \in Procs :
       /\ CancelEnded(p)
       /\ procs[p].saleId \in Ids(procs[p].pre)
       /\ procs[p].pre[procs[p].saleId].status = "EXPIRED"

C9_TerminalStatuses ==
    [][\A i \in Ids(sales) :
          sales[i].status \in {"CANCELED", "EXPIRED"}
             => sales'[i].status = sales[i].status]_vars

\* C10: whatever the interleaving of redemptions and cancellations, every
\* AVAILABLE record holds an availableCashback of at least 0.
C10_AvailableNonNegative ==
    \A i \in Ids(sales) :
       sales[i].status = "AVAILABLE" => sales[i].availableCashback >= 0

\* a redemption and a cancellation both in the middle of their writes, over
\* a ledger with an emptied record
C10_Witness ==
    \E p \in Procs, q \in Procs :
       /\ procs[p].pc = "red_write"
       /\ procs[q].pc = "can_restore"
       /\ \E i \in Ids(sales) :
             sales[i].status = "AVAILABLE" /\ sales[i].availableCashback = 0

\* C11: every persisted redemption record's history adds up to its
\* usedCashbackValue; stated for the states in which no handler is in
\* flight, where a record is no longer on its way to being completed.
C11_HistorySumsToUsedValue ==
    AllIdle =>
       \A i \in Ids(sales) :
          sales[i].usedCashback =>
             SumSeq(UsedValues(sales[i].history)) = sales[i].usedCashbackValue

\* the records a redemption set out to debit, and those that carry its entry
Touched(p) == {procs[p].usedSales[k].id : k \in 1..Len(procs[p].usedSales)}

Carrying(p) ==
    {i \in Touched(p) : EntriesOf(sales[i].cashbackUseHistory, procs[p].saleId) # <<>>}

\* C12: the debits of one redemption are persisted all or none: once the
\* writes of _useCashback have settled, whether they were applied or
\* rejected, either every record the redemption touched carries its debit
\* or none does.
C12_DebitsAllOrNothing ==
    \A p \in Procs :
       (procs[p].op \in {"create", "batch"} /\ procs[p].pend = {})
       => Carrying(p) = {} \/ Carrying(p) = Touched(p)

(* ------------------------- evaluation properties ----------------------- *)
Reasons ==
    <<"FAIL_SALES_CHANNEL_RULE", "FAIL_SALES_SUBSIDIARIES_RULE", "FAIL_PAYMENT_METHOD_RULE",
      "FAIL_ITEMS_RULE", "FAIL_MAX_SALES_CART_RULE", "FAIL_MIN_VALUE_RULE",
      "FAIL_CPF_PARTICIPATION_LIMIT_RULE">>

\* the n-th of the seven checks, taken alone, on the sale a turn was given
Passes(n, campaign, sale) ==
    LET marked == checkItemsThatFollowRules(campaign, sale).sale
    IN CASE n = 1 -> checkSalesChannelRule(campaign, sale)
         [] n = 2 -> checkSubsidiariesChannelRule(campaign, sale)
         [] n = 3 -> checkPaymentMethodRule(campaign, sale)
         [] n = 4 -> checkItemsThatFollowRules(campaign, sale).ok
         [] n = 5 -> checkMaxsalesCartRule(campaign, marked)
         [] n = 6 -> checkMinSaleValueRule(campaign, marked)
         [] n = 7 -> campaign.cpfParticipationLimit = 0
                     \/ checkCpfParticipationLimit(ev.ledger, campaign.code,
                                                   campaign.cpfParticipationLimit, sale.customer)

Failing(k) == {n \in 1..7 : ~Passes(n, ev.campaigns[k], ev.before[k])}

Least(S) == CHOOSE n \in S : \A m \in S : n <= m

\* the sale as turn k of the loop left it
After(k) == IF k < Len(ev.before) THEN ev.before[k + 1] ELSE ev.sale

Turns == IF ev.pc \in {"none", "start"} THEN {} ELSE 1..Len(ev.verdicts)

\* C13: every turn of the loop answers with the reason of the first of the
\* seven checks, in their fixed order, that fails on the sale it was given,
\* and with no other; the campaign's code is appended to
\* sale.matchedCampaigns exactly when none of the seven fails.
C13_FirstFailingCheckOnly ==
    \A k \in Turns :
       IF Failing(k) = {}
       THEN /\ ev.verdicts[k].isValid
            /\ After(k).matchedCampaigns
                 = Append(ev.before[k].matchedCampaigns, ev.campaigns[k].code)
       ELSE /\ ~ev.verdicts[k].isValid
            /\ ev.verdicts[k].reason = Reasons[Least(Failing(k))]
            /\ After(k).matchedCampaigns = ev.before[k].matchedCampaigns

\* a turn on which the payment method and the cart size both fail
C13_Witness ==
    \E k \in Turns : {3, 5} \subseteq Failing(k) /\ 1 \notin Failing(k) /\ 2 \notin Failing(k)

Participations(campaign, customer) ==
    Cardinality({i \in Ids(ev.ledger) : ev.ledger[i].cpf = customer
                                        /\ ev.ledger[i].usedCampaign = campaign.code})

\* the turns on a campaign that sets the limit, with a sale that passes the
\* six checks before the participation check
LimitTurns ==
    {k \in Turns : ev.campaigns[k].cpfParticipationLimit # 0 /\ Failing(k) \cap 1..6 = {}}

C14_WitnessFewer ==
    \E k \in LimitTurns :
       /\ ev.verdicts[k].isValid
       /\ Participations(ev.campaigns[k], ev.sale.customer) = 1
       /\ Cardinality({i \in Ids(ev.ledger) :
                          ev.ledger[i].usedCampaign = ev.campaigns[k].code}) = 2

\* C15: however the handlers of a customer's sales under one campaign
\* interleave, the ledger never holds more sales of that customer with
\* usedCampaign equal to that campaign than its cpfParticipationLimit.
C15_LimitHoldsUnderConcurrency ==
    \A r \in Ids(received) :
       received[r].data.limit # 0 =>
          Cardinality({i \in Ids(sales) : /\ sales[i].cpf = received[r].data.cpf
                                          /\ sales[i].usedCampaign = received[r].data.usedCampaign})
            <= received[r].data.limit

\* the candidates _calculeCashback returned, by position in validCampaigns
Candidates ==
    IF ev.pc \in {"calculated", "assembled", "persisted"} THEN 1..Len(ev.candidates) ELSE {}

CapTriggers(campaign, sale) ==
    campaign.cashbackLimit # 0 /\ campaign.cashbackLimit < AccumulatedTotal(campaign, sale)

\* C16: in percentage mode, when no cap triggers, every item matched to the
\* campaign has unitCashback = floor(unitPrice * percentCashback / 100) and
\* totalCashback = unitCashback * quantity, sale.totalCashback is the sum of
\* the matched items' totalCashback, and the items not matched carry neither
\* field.
C16_PercentageMode ==
    \A k \in Candidates :
       LET campaign == ev.validCampaigns[k]
           cand == ev.candidates[k]
           M == MatchedItems(campaign, cand)
       IN (campaign.percentCashback # 0 /\ ~CapTriggers(campaign, ev.sale)) =>
            /\ \A i \in M :
                 /\ cand.items[i].unitCashback
                      = (cand.items[i].unitPrice * campaign.percentCashback) \div 100
                 /\ cand.items[i].totalCashback
                      = cand.items[i].unitCashback * cand.items[i].quantity
            /\ cand.totalCashback = SumOver(M, [i \in M |-> cand.items[i].totalCashback])
            /\ \A i \in (1..Len(cand.items)) \ M :
                 cand.items[i].unitCashback = Unset /\ cand.items[i].totalCashback = Unset

NoItemCashback(sale) ==
    \A i \in 1..Len(sale.items) :
       sale.items[i].unitCashback = Unset /\ sale.items[i].totalCashback = Unset

C18_TotalWithinLimit ==
    \A k \in Candidates :
       ev.validCampaigns[k].cashbackLimit # 0 =>
          ev.candidates[k].totalCashback <= ev.validCampaigns[k].cashbackLimit

\* C19: from a non-empty list of candidates the selector returns a member
\* of the list whose totalCashback is at least that of every candidate.
C19_SelectsMaximum ==
    ev.pc = "assembled" =>
       /\ \E k \in Candidates : ev.candidates[k] = ev.best
       /\ \A k \in Candidates : ev.best.totalCashback >= ev.candidates[k].totalCashback

\* the selected candidate is not the first of the list and pays more
C19_Witness ==
    /\ ev.pc = "assembled"
    /\ Len(ev.candidates) >= 2
    /\ ev.best # ev.candidates[1]
    /\ ev.best.totalCashback > ev.candidates[1].totalCashback

\* C20: the saleWithOtherCampaigns of the assembled document holds the
\* summaries of exactly the candidates that were not selected (for the
\* totals 500, 1200, 900: the candidates of 500 and 900, and not the
\* selected one of 1200).
C20_AlternativesExcludeSelected ==
    ev.pc = "assembled" =>
       LET others == {k \in Candidates : ev.candidates[k] # ev.best}
           filed == ev.data.saleWithOtherCampaigns
       IN /\ \A k \in others : \E j \in 1..Len(filed) : filed[j] = Summary(ev.candidates[k])
          /\ \A j \in 1..Len(filed) : \E k \in others : filed[j] = Summary(ev.candidates[k])
          /\ Len(filed) = Cardinality(others)

\* C21: every sale record that carries both dates, and every candidate
\* _processSale returned, has creditDate <= expirateDate, whatever the
\* campaign's daysToCreditPdv, daysToCreditEcom and daysToRescue and the
\* sale's channel.
C21_CreditBeforeExpiration ==
    /\ \A i \in Ids(sales) :
          (sales[i].creditDate # Unset /\ sales[i].expirateDate # Unset)
             => sales[i].creditDate <= sales[i].expirateDate
    /\ \A k \in Candidates : ev.candidates[k].creditDate <= ev.candidates[k].expirateDate

\* a persisted record of a campaign with daysToRescue 0: it expires at the
\* end of the day it is credited
C21_Witness ==
    /\ ev.pc = "persisted"
    /\ ev.validCampaigns[1].daysToRescue = 0
    /\ \E i \in Ids(sales) :
          /\ sales[i].invoiceKey = ev.submitted.invoiceKey
          /\ sales[i].expirateDate = sales[i].creditDate + 23

\* the verification instant brought to the start of its day, as lines 55-58
\* do it
VerificationDay(sale, tz) ==
    updateHours(tz, startOfDay(updateHours(0 - tz, sale.verification), tz))

\* C30: creditDate is the midnight of the verification day plus
\* daysToCreditPdv days whenever the sale's channel is PDV, for every value
\* of daysToCreditPdv, 0 included, and plus daysToCreditEcom days for every
\* other channel.
C30_CreditDateByChannel ==
    \A k \in Candidates :
       ev.candidates[k].creditDate
         = VerificationDay(ev.sale, ev.tz)
           + 24 * (IF ev.sale.salesChannel = "PDV"
                   THEN ev.validCampaigns[k].daysToCreditPdv
                   ELSE ev.validCampaigns[k].daysToCreditEcom)

\* every campaign was looked at and none admitted the sale
NoneQualifies ==
    /\ ev.pc \notin {"none", "start", "loop"}
    /\ ev.err # "TypeError"
    /\ \A k \in 1..Len(ev.campaigns) : Failing(k) # {}

\* C24: when no candidate campaign admits an earning sale, processing fails
\* with SALE_NOT_MATCH_ANY_CAMPAIGN, the error carries one entry for every
\* candidate campaign, in their order, with that campaign's code and the
\* reason it gave, and the ledger holds no record of the submission.
C24_NoCampaignQualifies ==
    NoneQualifies =>
       /\ ev.pc = "threw"
       /\ ev.err = "SALE_NOT_MATCH_ANY_CAMPAIGN"
       /\ Len(ev.reasons) = Len(ev.campaigns)
       /\ \A k \in 1..Len(ev.campaigns) :
             /\ ev.reasons[k].campaign = ev.campaigns[k].code
             /\ ev.reasons[k].reason = Reasons[Least(Failing(k))]
       /\ sales = ev.ledger

\* two candidate campaigns, turned away for different reasons
C24_Witness ==
    /\ NoneQualifies
    /\ Len(ev.reasons) = 2
    /\ ev.reasons[1].reason # ev.reasons[2].reason

\* the submitted sale has an item whose part number has fewer than 3 segments
Malformed == \E i \in 1..Len(ev.submitted.items) : Len(ev.submitted.items[i].partnumber) < 3

\* C28: normalizing an item whose part number has fewer than 3 segments
\* fails with MALFORMED_PART_NUMBER before anything is written: the items of
\* the sale are as submitted and the ledger holds no record of it.
C28_MalformedPartNumber ==
    (ev.pc \notin {"none", "start"} /\ Malformed) =>
       /\ ev.pc = "threw"
       /\ ev.err = "MALFORMED_PART_NUMBER"
       /\ ev.sale.items = ev.submitted.items
       /\ sales = ev.ledger

\* C29: simulating a sale of a customer who is not banned, with at least
\* one campaign that admits it, returns the selected candidate, the
\* alternatives and the rejected campaigns with their reasons, raises no
\* error and leaves the ledger as it was.
C29_SimulateReturns ==
    (ev.pc = "simulated" /\ ev.err # "USER_FOUND_BANNEDLIST") =>
       /\ ev.err = ""
       /\ \E k \in 1..Len(ev.candidates) : ev.candidates[k] = ev.best
       /\ sales = ev.ledger

\* what the ledger's records say the redemption record i took from them
DebitsOf(i) ==
    SumSeq([j \in Ids(sales) |-> SumSeq(UsedValues(EntriesOf(sales[j].cashbackUseHistory, i)))])

\* the redemption records written for the received sale rs whose debits are
\* all on the ledger
DebitedFor(rs) ==
    {i \in Ids(sales) :
        /\ sales[i].receivedSale = rs
        /\ sales[i].usedCashback
        /\ DebitsOf(i) = sales[i].usedCashbackValue}

\* C22: a redemption whose debits were applied completes even when a
\* notification or event-tracking call after them fails: in the batch's
\* result it carries no error, its record holds its history, and the
\* submission is marked processed.
C22_RedemptionOutlivesNotification ==
    \A p \in Procs : \A k \in 1..Len(procs[p].results) :
       LET e == procs[p].results[k]
       IN (received[e.rs].data.usedCashback /\ DebitedFor(e.rs) # {}) =>
             /\ e.error = "none"
             /\ received[e.rs].processed
             /\ \A i \in DebitedFor(e.rs) : sales[i].history # <<>>

\* C23: when a collaborator call fails after cancel applied the
\* cancellation, nothing is taken back: the sale is CANCELED and every
\* source record that was restored has its restored balance and no entry of
\* the canceled redemption.
C23_CancelOutlivesNotification ==
    \A p \in Procs :
       (CancelEnded(p) /\ procs[p].outcome = "COLLABORATOR_ERROR") =>
          LET pre == procs[p].pre
              id == procs[p].saleId
          IN /\ sales[id].status = "CANCELED"
             /\ pre[id].usedCashback =>
                   \A i \in {pre[id].history[k].saleId : k \in 1..Len(pre[id].history)} :
                      pre[i].status # "EXPIRED" =>
                         /\ sales[i].availableCashback =
                               Num(pre[i].availableCashback)
                                  + SumSeq(UsedValues(SourcesOf(pre[id].history, i)))
                         /\ EntriesOf(sales[i].cashbackUseHistory, id) = <<>>

\* the cancel of a redemption that had a source to restore ended with the
\* collaborator's failure
C23_Witness ==
    \E p \in Procs :
       /\ CancelEnded(p)
       /\ procs[p].outcome = "COLLABORATOR_ERROR"
       /\ procs[p].pre[procs[p].saleId].usedCashback
       /\ \E k \in 1..Len(procs[p].pre[procs[p].saleId].history) :
             procs[p].pre[procs[p].pre[procs[p].saleId].history[k].saleId].status = "AVAILABLE"

\* C27: the balance wallet returns is the sum of availableCashback over the
\* AVAILABLE records of that customer, and of no other record, in the
\* collection its aggregate read (0 when there is none); no step of wallet
\* changes a sale record.
C27_BalanceReadOnly ==
    /\ [](ev # NoEval =>
             /\ ev.balance = AvailableBalance(ev.ledger, ev.cpf)
             /\ (\A i \in Ids(ev.ledger) :
                    ev.ledger[i].cpf = ev.cpf => ev.ledger[i].status # "AVAILABLE")
                   => ev.balance = 0)
    /\ [][ev' # ev => sales' = sales /\ received' = received]_vars

\* wallet returned a positive balance from a ledger that also holds an
\* AVAILABLE record of another customer and a record of this customer that
\* is not AVAILABLE
C27_Witness ==
    /\ ev # NoEval
    /\ ev.pc = "w_end"
    /\ ev.err = "none"
    /\ ev.balance > 0
    /\ \E i \in Ids(ev.ledger) :
          /\ ev.ledger[i].cpf # ev.cpf
          /\ ev.ledger[i].status = "AVAILABLE"
          /\ Num(ev.ledger[i].availableCashback) > 0
    /\ \E i \in Ids(ev.ledger) :
          /\ ev.ledger[i].cpf = ev.cpf
          /\ ev.ledger[i].status # "AVAILABLE"

\* wallet returned 0 for a customer without an AVAILABLE record
C27_WitnessNone ==
    /\ ev # NoEval
    /\ ev.pc = "w_end"
    /\ ev.balance = 0
    /\ \E i \in Ids(ev.ledger) : ev.ledger[i].cpf = ev.cpf

\* C26: a failure on one received sale, of whatever kind, does not end the
\* batch: when processUnprocessedSales returns, it returns success, every
\* unprocessed sale was attempted, and each sale that failed is in the
\* result with its error.
C26_BatchIsolation ==
    \A p \in Procs :
       (procs[p].op = "batch" /\ procs[p].pc = "end") =>
          /\ procs[p].outcome = "success"
          /\ procs[p].todo = <<>>
          /\ \A i \in Unprocessed(received) :
                \E k \in 1..Len(procs[p].results) :
                   /\ procs[p].results[k].rs = i
                   /\ procs[p].results[k].error # "none"

\* C25: a submission whose invoice key belongs to a persisted Sale record
\* is rejected as a duplicate, redemption or earning, with nothing
\* persisted or debited; no two Sale records have the same invoice key.
KeysOf(coll) == {coll[i].invoiceKey : i \in Ids(coll)}

C25_DuplicateRejected ==
    /\ \A i, j \in Ids(sales) : i # j => sales[i].invoiceKey # sales[j].invoiceKey
    /\ \A p \in Procs :
          (/\ procs[p].pc \in {"mark", "end"}
           /\ procs[p].rs \in Ids(received)
           /\ received[procs[p].rs].invoiceKey \in KeysOf(procs[p].pre)) =>
             /\ sales = procs[p].pre
             /\ procs[p].pc = "end"
             /\ procs[p].op = "create" => procs[p].outcome # "ReferenceError"
             /\ procs[p].op = "batch" =>
                   \A k \in 1..Len(procs[p].results) :
                      procs[p].results[k].rs = procs[p].rs =>
                         procs[p].results[k].error # "none"

\* C31: after the selection every item of the selected sale is eligible
\* exactly when the selected campaign's code is among its matchedCampaigns;
\* an item matched only to campaigns that did not win is not eligible.
C31_EligibleFollowsSelected ==
    ev.pc \in {"assembled", "persisted"} =>
       \A i \in 1..Len(ev.data.items) :
          ev.data.items[i].eligible
             <=> \E k \in 1..Len(ev.data.items[i].matchedCampaigns) :
                    ev.data.items[i].matchedCampaigns[k] = ev.data.usedCampaign

\* two campaigns were candidates; one item of the selected sale carries the
\* winner's code and is eligible, another carries only the other code and
\* is not
C31_Witness ==
    /\ ev.pc = "assembled"
    /\ Len(ev.candidates) = 2
    /\ \E i, j \in 1..Len(ev.data.items) :
          /\ ev.data.items[i].eligible
          /\ ev.data.items[i].matchedCampaigns = <<ev.data.usedCampaign>>
          /\ ~ev.data.items[j].eligible
          /\ ev.data.items[j].matchedCampaigns # <<>>
          /\ \A k \in 1..Len(ev.data.items[j].matchedCampaigns) :
                ev.data.items[j].matchedCampaigns[k] # ev.data.usedCampaign

\* C32: matchedCampaigns is a set of codes: after the item check of a
\* campaign ran, the campaign's code is at most once in an item's
\* matchedCampaigns, also when the item satisfies several of its rules, and
\* it is there exactly when one of the campaign's rules matches the item.
Occurrences(seq, x) == Cardinality({k \in 1..Len(seq) : seq[k] = x})

ItemCheckRan(k) ==
    ev.verdicts[k].reason \notin
       {"FAIL_SALES_CHANNEL_RULE", "FAIL_SALES_SUBSIDIARIES_RULE", "FAIL_PAYMENT_METHOD_RULE"}

SomeRuleMatches(campaign, item) ==
    \E r \in 1..Len(campaign.rules) : RuleMatches(campaign.rules[r], item)

C32_MatchedCampaignsIsSet ==
    \A k \in Turns : \A i \in 1..Len(After(k).items) :
       LET n == Occurrences(After(k).items[i].matchedCampaigns, ev.campaigns[k].code)
       IN /\ n <= 1
          /\ ItemCheckRan(k) => (n >= 1 <=> SomeRuleMatches(ev.campaigns[k], After(k).items[i]))

\* C33: the cancellation of a PENDING earning sets that sale to CANCELED,
\* removes its creditDate, expirateDate and availableCashback and changes
\* nothing else, in that record or in any other; the canceled sale then adds
\* nothing to the customer's balance.
CanceledEarning(p) ==
    /\ procs[p].op = "cancel"
    /\ procs[p].pc \in {"can_tail", "end"}
    /\ procs[p].saleId \in Ids(procs[p].pre)
    /\ ~procs[p].pre[procs[p].saleId].usedCashback
    /\ procs[p].pre[procs[p].saleId].status = "PENDING"

C33_EarningCancellation ==
    \A p \in Procs :
       CanceledEarning(p) =>
          LET pre == procs[p].pre
              id == procs[p].saleId
          IN /\ Len(sales) = Len(pre)
             /\ sales[id] = [pre[id] EXCEPT !.status = "CANCELED", !.creditDate = Unset,
                                            !.expirateDate = Unset,
                                            !.availableCashback = Unset]
             /\ \A j \in Ids(pre) : j # id => sales[j] = pre[j]
             /\ AvailableBalance(sales, sales[id].cpf)
                   = SumSeq([j \in Ids(sales) |->
                                IF j # id /\ sales[j].cpf = sales[id].cpf
                                          /\ sales[j].status = "AVAILABLE"
                                THEN Num(sales[j].availableCashback) ELSE 0])

\* a PENDING earning that had its dates was canceled next to other records
C33_Witness ==
    \E p \in Procs :
       /\ CanceledEarning(p)
       /\ procs[p].pc = "can_tail"
       /\ procs[p].pre[procs[p].saleId].expirateDate # Unset
       /\ procs[p].pre[procs[p].saleId].totalCashback > 0
       /\ Len(sales) > 1

\* C34: a record's totalCashback, once written, is changed by no later
\* operation: redemptions, cancellations of either kind and the processing
\* of submissions leave the totalCashback of every existing record as it is.
C34_TotalCashbackFrozen ==
    [][\A i \in Ids(sales) :
          /\ i \in Ids(sales')
          /\ sales'[i].totalCashback = sales[i].totalCashback]_vars

\* what an earned record that was released holds and what was taken from it
Released(coll) ==
    {i \in Ids(coll) : ~coll[i].usedCashback /\ coll[i].status \in {"AVAILABLE", "USED"}}

Accounted(d) == Num(d.availableCashback) + SumSeq(UsedValues(d.cashbackUseHistory))

\* C35: with a cancel in flight next to another cancel of the same
\* redemption, or next to a redemption that debits the same source, every
\* source record stays consistent: an entry's usedValue goes back to its
\* source at most once and no debit or restore is lost, so what the record
\* holds and what its history says was taken add up to what it was
\* released with.
C35_ConcurrentCancelConsistent ==
    (\E p \in Procs : procs[p].op = "cancel") =>
       \A i \in Released(sales) : Accounted(sales[i]) = sales[i].totalCashback

\* C36: through redemptions and cancellations run one after the other,
\* every AVAILABLE earned record conserves what it was released with: its
\* availableCashback and the usedValue of its cashbackUseHistory entries add
\* up to that amount, and availableCashback is never above it.
C36_Conservation ==
    \A i \in Ids(sales) :
       (~sales[i].usedCashback /\ sales[i].status = "AVAILABLE") =>
          /\ Accounted(sales[i]) = sales[i].totalCashback
          /\ Num(sales[i].availableCashback) <= sales[i].totalCashback

\* a redemption and then its cancellation have completed, and a record
\* still carries the entry of another redemption
C36_Witness ==
    /\ \E p \in Procs :
          /\ CancelEnded(p)
          /\ procs[p].outcome = "ok"
          /\ procs[p].pre[procs[p].saleId].usedCashback
          /\ procs[p].saleId > 3
    /\ \E i \in Ids(sales) :
          /\ ~sales[i].usedCashback
          /\ sales[i].status = "AVAILABLE"
          /\ Len(sales[i].cashbackUseHistory) >= 1

\* C37: the allocation loop of _useCashback ends without reading past the
\* end of the records it fetched, whatever the amount and the records, also
\* when a concurrent redemption or an expiry took records away between the
\* balance check and the allocation: no redemption ends in the TypeError of
\* reading a field of salesWithCashback[i] beyond the list.
C37_LoopStaysInList ==
    \A p \in Procs :
       /\ procs[p].outcome # "TypeError"
       /\ \A k \in 1..Len(procs[p].results) : procs[p].results[k].error # "TypeError"

\* C38: a received redemption is applied to the ledger at most once: over
\* any sequence of create and batch runs, repeated runs after a failure that
\* came after the debits included, what the ledger shows as debited for the
\* records of one received submission never exceeds its usedCashbackValue.
DebitedOnBehalf(rs) ==
    SumSeq([j \in Ids(sales) |->
               IF sales[j].usedCashback /\ sales[j].receivedSale = rs
               THEN DebitsOf(j) ELSE 0])

C38_AppliedAtMostOnce ==
    \A rs \in Ids(received) :
       received[rs].data.usedCashback =>
          DebitedOnBehalf(rs) <= received[rs].data.usedCashbackValue

\* C39: the balance that is checked is the balance of the customer who is
\* debited: a redemption handed in through create or through the batch, for
\* a customer whose AVAILABLE balance covers the amount, is not rejected
\* with INSUFFICIENT_FUNDS.
RejectedForFunds(p) ==
    /\ procs[p].pc = "end"
    /\ procs[p].rs \in Ids(received)
    /\ \/ procs[p].op = "create" /\ procs[p].outcome = "INSUFFICIENT_FUNDS"
       \/ /\ procs[p].op = "batch"
          /\ \E k \in 1..Len(procs[p].results) :
                /\ procs[p].results[k].rs = procs[p].rs
                /\ procs[p].results[k].error = "INSUFFICIENT_FUNDS"

C39_CheckedCustomerIsDebited ==
    \A p \in Procs :
       RejectedForFunds(p) =>
          AvailableBalance(procs[p].pre, received[procs[p].rs].data.cpf)
             < received[procs[p].rs].data.usedCashbackValue

\* C40: when create reports an error, no Sale record of the submission was
\* persisted and nothing was debited; when create persisted the Sale record
\* and marked the submission processed, it returns without an error.
CreateEnded(p) ==
    /\ procs[p].op = "create"
    /\ procs[p].pc = "end"
    /\ procs[p].rs \in Ids(received)

C40_CreateErrorsPersistNothing ==
    \A p \in Procs :
       CreateEnded(p) =>
          /\ procs[p].outcome # "ok" => sales = procs[p].pre
          /\ (/\ received[procs[p].rs].processed
              /\ \E i \in Ids(sales) : sales[i].receivedSale = procs[p].rs)
                => procs[p].outcome = "ok"

====
